---- MODULE Spec2Model ----
(***************************************************************************)
(* A model of the easytrack core: the schema model (Column, DataSource,    *)
(* DataSourceColumn), the fan-out of table creation over participants and  *)
(* data sources, the dynamic per-(participant, data source) tables with    *)
(* their typed insert and range queries, and the hourly statistics store.  *)
(*                                                                         *)
(* Time is counted in ticks of thirty minutes: one hour is two ticks.      *)
(* Floats are written as their value times ten (3.5 is PyFloat(35)).       *)
(***************************************************************************)
EXTENDS Integers, Sequences, FiniteSets, TLC

VARIABLES
    column,                 \* core.column rows; a row's id is its index
    data_source,            \* core.data_source rows (the name); id = index
    data_source_column,     \* core.data_source_column rows, in insertion order
    participant,            \* core.participant rows: <<campaign id, user id>>
    campaign_data_source,   \* core.campaign_data_source rows: <<campaign id, data source id>>
    data,                   \* schema `data`: table name -> the table's rows, in insertion order
    hourly_stats,           \* core.hourly_stats rows, in insertion order
    system_tz,              \* the time zone of the host (what astimezone gives a naive datetime)
    core_campaign,          \* core.campaign rows; id = index
    supervisor,             \* core.supervisor rows: <<campaign id, user id>>
    connections,            \* the Connections pool and the connections ever opened
    durable,                \* schema `data` as committed: what a new connection would see
    ret,                    \* the last call: its name, arguments and outcome
    calls                   \* the calls in flight: caller -> its position and its locals

vars == <<column, data_source, data_source_column, participant,
          campaign_data_source, data, hourly_stats, system_tz,
          core_campaign, supervisor, connections, durable, ret, calls>>

(***************************************************************************)
(* Bounds of the model.                                                    *)
(***************************************************************************)
MaxUsers == 2
MaxColumnsArg == 2
MaxRows == 2
MaxWall == 2
MaxStats == 2
MaxAcceptLen == 3
MaxCreated == 1
MaxCampaigns == 2

Campaigns == {1, 2}
Users == 1 .. MaxUsers

(***************************************************************************)
(* Python values: every value carries its type, so that isinstance and      *)
(* truthiness are computed as Python computes them.                        *)
(***************************************************************************)
PyNone == [t |-> "NoneType"]
PyStr(s) == [t |-> "str", s |-> s]
PyInt(n) == [t |-> "int", v |-> n]
PyFloat(n) == [t |-> "float", v |-> n]
PyList(q) == [t |-> "list", q |-> q]
PyDict(d) == [t |-> "dict", d |-> d]
PyDatetime(wall, tz) == [t |-> "datetime", wall |-> wall, tz |-> tz]

isinstance(x, py_type) == x.t = py_type

\* a test for None alone
falsy_none_only(x) == x.t = "NoneType"

\* `not x` of Python for the values the services test this way
falsy(x) ==
    CASE x.t = "NoneType" -> TRUE
      [] x.t = "str" -> x.s = ""
      [] x.t = "list" -> x.q = <<>>
      [] OTHER -> FALSE

Raised(op, args, exc) == [op |-> op, args |-> args, raised |-> exc]
Returned(op, args, value) == [op |-> op, args |-> args, raised |-> "", value |-> value]

(***************************************************************************)
(* Column type registry.                                                   *)
(***************************************************************************)
TIMESTAMP == "timestamp"

ColumnTypeNames == <<"timestamp", "text", "integer", "float">>

py_type(column_type) ==
    CASE column_type = "timestamp" -> "datetime"
      [] column_type = "text" -> "str"
      [] column_type = "integer" -> "int"
      [] column_type = "float" -> "float"

\* int(s), float(s), str(s) of an accept_values entry
cast(pytype, s) ==
    CASE pytype = "int" ->
            PyInt(CASE s = "1" -> 1 [] s = "2" -> 2 [] s = "3" -> 3 [] OTHER -> 0)
      [] pytype = "float" ->
            PyFloat(CASE s = "1" -> 10 [] s = "2" -> 20 [] s = "3" -> 30 [] OTHER -> 0)
      [] OTHER -> PyStr(s)

(***************************************************************************)
(* Schema model.                                                           *)
(***************************************************************************)
Column(name, column_type, is_categorical, accept_values) ==
    [name |-> name, column_type |-> column_type,
     is_categorical |-> is_categorical, accept_values |-> accept_values]

DataSourceColumn(ds, col) == [data_source |-> ds, column |-> col]

\* the position a data_source_column row is ordered by: rows are numbered as inserted
column_order(dsc, i) == i

RECURSIVE order_by_asc(_, _)
order_by_asc(dsc, left) ==
    IF left = {} THEN <<>>
    ELSE LET first == CHOOSE i \in left :
                         \A j \in left : column_order(dsc, i) <= column_order(dsc, j)
         IN  <<first>> \o order_by_asc(dsc, left \ {first})

\* the ids of the data source's columns, in canonical order
get_data_source_columns_of(dsc, ds) ==
    LET tmp == {i \in DOMAIN dsc : dsc[i].data_source = ds}
        ordered == order_by_asc(dsc, tmp)
    IN  [k \in DOMAIN ordered |-> dsc[ordered[k]].column]

get_data_source_columns(ds) == get_data_source_columns_of(data_source_column, ds)

\* a lookup by name that finds nothing
find_data_source_by_name_never(name) == {}

find_data_source_by_name(name) ==
    {i \in DOMAIN data_source : data_source[i] = name}

RECURSIVE non_reserved(_, _)
non_reserved(cols, columns) ==
    IF columns = <<>> THEN <<>>
    ELSE (IF cols[Head(columns)].name = TIMESTAMP THEN <<>> ELSE <<Head(columns)>>)
         \o non_reserved(cols, Tail(columns))

\* the rows with no column skipped: a caller's column named `timestamp` is linked too
new_data_source_columns_keep_reserved(ds, timestamp_column, columns) ==
    <<DataSourceColumn(ds, timestamp_column)>>
    \o [k \in DOMAIN columns |-> DataSourceColumn(ds, columns[k])]

\* the data_source_column rows create_data_source adds for a new data source
new_data_source_columns(ds, timestamp_column, columns) ==
    <<DataSourceColumn(ds, timestamp_column)>>
    \o [k \in DOMAIN non_reserved(column, columns) |->
            DataSourceColumn(ds, non_reserved(column, columns)[k])]

create_data_source(name, columns) ==
    LET args == <<name, columns>>
        op == "create_data_source"
    IN
    /\ UNCHANGED calls
    /\ UNCHANGED <<participant, campaign_data_source, data, hourly_stats, system_tz,
                   core_campaign, supervisor, connections, durable>>
    /\ IF falsy(name) \/ falsy(columns)
       THEN /\ ret' = Raised(op, args, "ValueError")
            /\ UNCHANGED <<column, data_source, data_source_column>>
       ELSE IF find_data_source_by_name(name.s) # {}
       THEN /\ ret' = Returned(op, args, CHOOSE i \in find_data_source_by_name(name.s) : TRUE)
            /\ UNCHANGED <<column, data_source, data_source_column>>
       ELSE LET ds == Len(data_source) + 1
                timestamp_column == Len(column) + 1
            IN  /\ data_source' = Append(data_source, name.s)
                /\ column' = Append(column, Column(TIMESTAMP, "timestamp", FALSE, <<>>))
                /\ data_source_column' =
                       data_source_column
                       \o new_data_source_columns(ds, timestamp_column, columns.q)
                /\ ret' = Returned(op, args, ds)

(***************************************************************************)
(* Dynamic tables: names and lifecycle.                                    *)
(***************************************************************************)
\* the ids written one after the other, with no letter between them
DataTable_table_name_unseparated(campaign_id, user_id, data_source_id) ==
    ToString(campaign_id) \o ToString(user_id) \o ToString(data_source_id)

\* f'c{participant.campaign.id}u{participant.user.id}d{data_source.id}'
DataTable_table_name(campaign_id, user_id, data_source_id) ==
    "c" \o ToString(campaign_id) \o "u" \o ToString(user_id)
        \o "d" \o ToString(data_source_id)

\* ''.join([f'c{campaign.id}', f'u{user.id}', f'd{data_source.id}', '_aggregated'])
AggDataTable_table_name(campaign_id, user_id, data_source_id) ==
    "c" \o ToString(campaign_id) \o "u" \o ToString(user_id)
        \o "d" \o ToString(data_source_id) \o "_aggregated"

NoTables == [n \in {} |-> <<>>]

\* create table if not exists
create_table(tbls, table_name) ==
    IF table_name \in DOMAIN tbls THEN tbls
    ELSE [n \in DOMAIN tbls \cup {table_name} |->
             IF n = table_name THEN <<>> ELSE tbls[n]]

\* drop table if exists
drop_table(tbls, table_name) ==
    [n \in DOMAIN tbls \ {table_name} |-> tbls[n]]

table_exists(table_name) == table_name \in DOMAIN data

(***************************************************************************)
(* The connection pool. A connection is named by the number of the         *)
(* pg2.connect call that opened it.                                        *)
(***************************************************************************)
NoConnections ==
    [cache |-> [schema_name \in {} |-> 0], opened |-> 0, closed |-> {}, schemas |-> {}]

\* a pool that opens a connection at every call
Connections_get_always_opens(cons, schema_name) ==
    [cons EXCEPT
        !.cache = [n \in DOMAIN cons.cache \cup {schema_name} |->
                      IF n = schema_name THEN cons.opened + 1 ELSE cons.cache[n]],
        !.opened = cons.opened + 1,
        !.schemas = cons.schemas \cup {schema_name}]

\* Connections.get(schema_name): the pool after the call
Connections_get(cons, schema_name) ==
    IF schema_name \in DOMAIN cons.cache THEN cons
    ELSE [cons EXCEPT
             !.cache = [n \in DOMAIN cons.cache \cup {schema_name} |->
                           IF n = schema_name THEN cons.opened + 1 ELSE cons.cache[n]],
             !.opened = cons.opened + 1,
             !.schemas = cons.schemas \cup {schema_name}]

\* the pool of a process that has used a table wrapper
DataConnection == Connections_get(NoConnections, "data")

\* each create_table takes the connection of schema `data` and commits on it
committed_by_create_tables(names) ==
    IF names = {} THEN UNCHANGED <<connections, durable>>
    ELSE /\ connections' = Connections_get(connections, "data")
         /\ durable' = data'

RECURSIVE create_tables(_, _)
create_tables(tbls, names) ==
    IF names = {} THEN tbls
    ELSE LET n == CHOOSE n \in names : TRUE
         IN  create_tables(create_table(tbls, n), names \ {n})

(***************************************************************************)
(* Campaign bindings and the fan-out of table creation.                    *)
(***************************************************************************)
\* a membership test that always answers no
is_participant_never(campaign, user) == FALSE

is_participant(campaign, user) == <<campaign, user>> \in participant

get_campaign_participants(campaign) ==
    {p \in participant : p[1] = campaign}

is_campaign_data_source(campaign, ds) == <<campaign, ds>> \in campaign_data_source

get_campaign_data_sources(campaign) ==
    {cds[2] : cds \in {x \in campaign_data_source : x[1] = campaign}}

\* the raw tables alone
participant_tables_raw_only(campaign, user) ==
    {DataTable_table_name(campaign, user, ds) : ds \in get_campaign_data_sources(campaign)}

\* the tables add_campaign_participant creates for the new participant
participant_tables(campaign, user) ==
    {DataTable_table_name(campaign, user, ds) : ds \in get_campaign_data_sources(campaign)}
    \cup
    {AggDataTable_table_name(campaign, user, ds) : ds \in get_campaign_data_sources(campaign)}

add_campaign_participant(campaign, add_user) ==
    LET args == <<campaign, add_user>>
        op == "add_campaign_participant"
    IN
    /\ UNCHANGED calls
    /\ UNCHANGED <<column, data_source, data_source_column, campaign_data_source,
                   hourly_stats, system_tz, core_campaign, supervisor>>
    /\ IF is_participant(campaign, add_user)
       THEN /\ ret' = Returned(op, args, FALSE)
            /\ UNCHANGED <<participant, data, connections, durable>>
       ELSE /\ participant' = participant \cup {<<campaign, add_user>>}
            /\ data' = create_tables(data, participant_tables(campaign, add_user))
            /\ committed_by_create_tables(participant_tables(campaign, add_user))
            /\ ret' = Returned(op, args, TRUE)

\* the raw and aggregated tables of a data source, over the participants of a campaign
participant_tables_of(campaign, ds) ==
    {DataTable_table_name(campaign, p[2], ds) : p \in get_campaign_participants(campaign)}
    \cup
    {AggDataTable_table_name(campaign, p[2], ds) : p \in get_campaign_participants(campaign)}

\* the tables add_campaign_data_source creates for the new data source
data_source_tables(campaign, ds) ==
    {DataTable_table_name(campaign, p[2], ds) : p \in get_campaign_participants(campaign)}

add_campaign_data_source(campaign, ds) ==
    LET args == <<campaign, ds>>
        op == "add_campaign_data_source"
    IN
    /\ UNCHANGED calls
    /\ UNCHANGED <<column, data_source, data_source_column, participant,
                   hourly_stats, system_tz, core_campaign, supervisor>>
    /\ IF is_campaign_data_source(campaign, ds)
       THEN /\ ret' = Returned(op, args, FALSE)
            /\ UNCHANGED <<campaign_data_source, data, connections, durable>>
       ELSE /\ campaign_data_source' = campaign_data_source \cup {<<campaign, ds>>}
            /\ data' = create_tables(data, data_source_tables(campaign, ds))
            /\ committed_by_create_tables(data_source_tables(campaign, ds))
            /\ ret' = Returned(op, args, TRUE)

(***************************************************************************)
(* Timestamps. A datetime is a wall-clock reading in ticks and a time zone *)
(* ("naive" when it has no tzinfo).                                        *)
(***************************************************************************)
utcoffset(tz) ==
    CASE tz = "utc" -> 0
      [] tz = "other" -> 3

\* value.astimezone(tz = pytz.utc).replace(tzinfo = None); a naive value is read in the
\* host's time zone
astimezone_utc_naive(value) ==
    IF value.tz = "naive" THEN value.wall - utcoffset(system_tz)
    ELSE value.wall - utcoffset(value.tz)

\* strip_tz: an aware datetime becomes naive UTC, a naive one is kept as it is
strip_tz(value) ==
    IF value.tz # "naive" THEN value.wall - utcoffset(value.tz)
    ELSE value.wall

\* replace(minute = 0, second = 0, microsecond = 0)
floor_to_hour(wall) == (wall \div 2) * 2

(***************************************************************************)
(* Dynamic tables: insert.                                                 *)
(***************************************************************************)
\* Python's == on the values a record holds: numbers compare by value
py_num(x) == IF x.t = "int" THEN x.v * 10 ELSE x.v

py_eq(x, y) ==
    IF x.t \in {"int", "float"} /\ y.t \in {"int", "float"}
    THEN py_num(x) = py_num(y)
    ELSE x = y

py_in(x, list) == \E i \in DOMAIN list : py_eq(x, list[i])

accepted_values(col) ==
    [i \in DOMAIN col.accept_values |->
        cast(py_type(col.column_type), col.accept_values[i])]

\* the check of one column of the wrapper against `value`: "" when it passes,
\* the exception otherwise
verify_column(c, value) ==
    LET col == column[c] IN
    IF PyInt(c) \notin DOMAIN value.d THEN "ValueError"
    ELSE IF ~isinstance(value.d[PyInt(c)], py_type(col.column_type)) THEN "ValueError"
    ELSE IF col.accept_values # <<>>
    THEN IF PyStr(col.name) \notin DOMAIN value.d THEN "KeyError"
         ELSE IF ~py_in(value.d[PyStr(col.name)], accepted_values(col)) THEN "ValueError"
         ELSE ""
    ELSE ""

RECURSIVE verify_columns(_, _)
verify_columns(columns, value) ==
    IF columns = <<>> THEN ""
    ELSE IF column[Head(columns)].name = TIMESTAMP THEN verify_columns(Tail(columns), value)
    ELSE IF verify_column(Head(columns), value) # "" THEN verify_column(Head(columns), value)
    ELSE verify_columns(Tail(columns), value)

\* what insert raises before it writes: "" when the arguments pass
insert_verify(columns, timestamp, value) ==
    IF ~isinstance(timestamp, "datetime") \/ ~isinstance(value, "dict") THEN "ValueError"
    ELSE verify_columns(columns, value)

\* the row insert writes: data_source_id, timestamp, then the values in column order
insert_row(ds, columns, timestamp, value) ==
    [data_source_id |-> ds,
     timestamp |-> strip_tz(timestamp),
     vals |-> [k \in DOMAIN non_reserved(column, columns) |->
                  value.d[PyInt(non_reserved(column, columns)[k])]]]

\* DataTable(participant, data_source).insert(timestamp, value)
insert(p, ds, timestamp, value, commit) ==
    LET args == <<p, ds, timestamp, value, commit>>
        op == "insert"
        table_name == DataTable_table_name(p[1], p[2], ds)
        columns == get_data_source_columns(ds)
        exc == insert_verify(columns, timestamp, value)
    IN
    /\ UNCHANGED calls
    /\ UNCHANGED <<column, data_source, data_source_column, participant,
                   campaign_data_source, hourly_stats, system_tz, core_campaign, supervisor>>
    /\ IF exc # ""
       THEN /\ ret' = Raised(op, args, exc)
            /\ UNCHANGED <<data, connections, durable>>
       ELSE IF table_name \notin DOMAIN data
       THEN /\ ret' = Raised(op, args, "UndefinedTable")
            /\ connections' = Connections_get(connections, "data")
            /\ UNCHANGED <<data, durable>>
       ELSE /\ data' = [data EXCEPT ![table_name] =
                           Append(@, insert_row(ds, columns, timestamp, value))]
            /\ connections' = Connections_get(connections, "data")
            /\ durable' = IF commit THEN data' ELSE durable
            /\ ret' = Returned(op, args, PyNone)

(***************************************************************************)
(* Dynamic tables: queries.                                                *)
(***************************************************************************)
\* a range closed at till_ts
select_count_where_inclusive(row, ds, from_ts, till_ts) ==
    /\ row.data_source_id = ds
    /\ row.timestamp >= strip_tz(from_ts)
    /\ row.timestamp <= strip_tz(till_ts)

\* where data_source_id = %s and timestamp >= %s and timestamp < %s
select_count_where(row, ds, from_ts, till_ts) ==
    /\ row.data_source_id = ds
    /\ row.timestamp >= strip_tz(from_ts)
    /\ row.timestamp < strip_tz(till_ts)

RECURSIVE count_rows(_, _, _, _)
count_rows(rows, ds, from_ts, till_ts) ==
    IF rows = <<>> THEN 0
    ELSE (IF select_count_where(Head(rows), ds, from_ts, till_ts) THEN 1 ELSE 0)
         + count_rows(Tail(rows), ds, from_ts, till_ts)

select_count(p, ds, from_ts, till_ts) ==
    LET args == <<p, ds, from_ts, till_ts>>
        op == "select_count"
        table_name == DataTable_table_name(p[1], p[2], ds)
    IN
    /\ UNCHANGED calls
    /\ UNCHANGED <<column, data_source, data_source_column, participant,
                   campaign_data_source, data, hourly_stats, system_tz,
                   core_campaign, supervisor, durable>>
    /\ connections' = Connections_get(connections, "data")
    /\ IF table_name \notin DOMAIN data
       THEN ret' = Raised(op, args, "UndefinedTable")
       ELSE ret' = Returned(op, args, count_rows(data[table_name], ds, from_ts, till_ts))

\* where data_source_id = %s
RECURSIVE rows_of(_, _)
rows_of(rows, ds) ==
    IF rows = <<>> THEN <<>>
    ELSE (IF Head(rows).data_source_id = ds THEN <<Head(rows)>> ELSE <<>>)
         \o rows_of(Tail(rows), ds)

\* order by timestamp asc limit 1: the timestamp of the first row in that order
order_by_timestamp_asc_limit_1(rows) ==
    LET i == CHOOSE i \in DOMAIN rows :
                 \A j \in DOMAIN rows : rows[i].timestamp <= rows[j].timestamp
    IN  rows[i].timestamp

\* limit 1 with no order by: the row stored first
order_by_timestamp_desc_limit_1_unordered(rows) == rows[1].timestamp

\* order by timestamp desc limit 1
order_by_timestamp_desc_limit_1(rows) ==
    LET i == CHOOSE i \in DOMAIN rows :
                 \A j \in DOMAIN rows : rows[i].timestamp >= rows[j].timestamp
    IN  rows[i].timestamp

select_first_ts_of(rows, ds) ==
    IF rows_of(rows, ds) = <<>> THEN PyNone
    ELSE PyDatetime(order_by_timestamp_asc_limit_1(rows_of(rows, ds)), "naive")

select_last_ts_of(rows, ds) ==
    IF rows_of(rows, ds) = <<>> THEN PyNone
    ELSE PyDatetime(order_by_timestamp_desc_limit_1(rows_of(rows, ds)), "naive")

select_first_ts(p, ds) ==
    LET args == <<p, ds>>
        op == "select_first_ts"
        table_name == DataTable_table_name(p[1], p[2], ds)
    IN
    /\ UNCHANGED calls
    /\ UNCHANGED <<column, data_source, data_source_column, participant,
                   campaign_data_source, data, hourly_stats, system_tz,
                   core_campaign, supervisor, durable>>
    /\ connections' = Connections_get(connections, "data")
    /\ IF table_name \notin DOMAIN data
       THEN ret' = Raised(op, args, "UndefinedTable")
       ELSE ret' = Returned(op, args, select_first_ts_of(data[table_name], ds))

select_last_ts(p, ds) ==
    LET args == <<p, ds>>
        op == "select_last_ts"
        table_name == DataTable_table_name(p[1], p[2], ds)
    IN
    /\ UNCHANGED calls
    /\ UNCHANGED <<column, data_source, data_source_column, participant,
                   campaign_data_source, data, hourly_stats, system_tz,
                   core_campaign, supervisor, durable>>
    /\ connections' = Connections_get(connections, "data")
    /\ IF table_name \notin DOMAIN data
       THEN ret' = Raised(op, args, "UndefinedTable")
       ELSE ret' = Returned(op, args, select_last_ts_of(data[table_name], ds))

(***************************************************************************)
(* Hourly statistics store.                                                *)
(***************************************************************************)
HourlyStats(p, ds, timestamp, amount) ==
    [participant |-> p, data_source |-> ds, timestamp |-> timestamp, amount |-> amount]

\* the amount as the JSON column holds it: the keys of an object are strings
json_dumps(amount) ==
    [s \in {ToString(k.v) : k \in DOMAIN amount.d} |->
        amount.d[CHOOSE k \in DOMAIN amount.d : ToString(k.v) = s]]

\* {int(k): v for k, v in dict(stats.amount).items()}
int_keys(stored) ==
    LET int(s) == CHOOSE n \in 0 .. 99 : ToString(n) = s
    IN  [n \in {int(s) : s \in DOMAIN stored} |->
            stored[CHOOSE s \in DOMAIN stored : int(s) = n]]

\* a lookup of the hour that finds no row
stats_at_never(rows, p, ds, hour) == {}

\* HourlyStats.filter(participant, data_source, timestamp = hour)
stats_at(rows, p, ds, hour) ==
    {i \in DOMAIN rows : /\ rows[i].participant = p
                         /\ rows[i].data_source = ds
                         /\ rows[i].timestamp = hour}

\* HourlyStats.filter(participant, data_source, timestamp__lte = hour)
stats_lte(rows, p, ds, hour) ==
    {i \in DOMAIN rows : /\ rows[i].participant = p
                         /\ rows[i].data_source = ds
                         /\ rows[i].timestamp <= hour}

\* every key taken for valid
invalid_column_ids_none(ds, amount) == {}

\* the keys of amount that are not ids of columns of the data source
invalid_column_ids(ds, amount) ==
    LET columns == get_data_source_columns(ds)
        column_ids == {columns[k] : k \in DOMAIN columns}
    IN  {column_id \in DOMAIN amount.d : ~(column_id.t = "int" /\ column_id.v \in column_ids)}

create_hourly_stats(p, ds, hour_timestamp, amount) ==
    LET args == <<p, ds, hour_timestamp, amount>>
        op == "create_hourly_stats"
    IN
    /\ UNCHANGED calls
    /\ UNCHANGED <<column, data_source, data_source_column, participant,
                   campaign_data_source, data, system_tz,
                   core_campaign, supervisor, connections, durable>>
    /\ IF ~isinstance(hour_timestamp, "datetime")
       THEN /\ ret' = Raised(op, args, "ValueError")
            /\ UNCHANGED hourly_stats
       ELSE LET hour == floor_to_hour(astimezone_utc_naive(hour_timestamp))
                found == stats_at(hourly_stats, p, ds, hour)
            IN  IF invalid_column_ids(ds, amount) # {}
                THEN /\ ret' = Raised(op, args, "ValueError")
                     /\ UNCHANGED hourly_stats
                ELSE IF found # {}
                THEN /\ hourly_stats' =
                            [hourly_stats EXCEPT
                                ![CHOOSE i \in found : \A j \in found : i <= j].amount =
                                    json_dumps(amount)]
                     /\ ret' = Returned(op, args, PyNone)
                ELSE /\ hourly_stats' =
                            Append(hourly_stats, HourlyStats(p, ds, hour, json_dumps(amount)))
                     /\ ret' = Returned(op, args, PyNone)

\* the zero-filled shape: a count per accept_values entry, or the single key "amount"
zero_amounts(columns) ==
    [c \in {non_reserved(column, columns)[k] : k \in DOMAIN non_reserved(column, columns)} |->
        IF column[c].accept_values # <<>>
        THEN [v \in {column[c].accept_values[i] : i \in DOMAIN column[c].accept_values} |-> 0]
        ELSE [v \in {"amount"} |-> 0]]

\* the row of the exact hour, else the latest row at or before the hour; 0 when none
stats_for(rows, p, ds, hour) ==
    IF stats_at(rows, p, ds, hour) # {}
    THEN CHOOSE i \in stats_at(rows, p, ds, hour) :
             \A j \in stats_at(rows, p, ds, hour) : i <= j
    ELSE IF stats_lte(rows, p, ds, hour) # {}
    THEN CHOOSE i \in stats_lte(rows, p, ds, hour) :
             \A j \in stats_lte(rows, p, ds, hour) : rows[i].timestamp >= rows[j].timestamp
    ELSE 0

\* the stored amounts laid over the zero-filled shape, column by column
merge_amounts(ans, amounts) ==
    [c \in DOMAIN ans |-> IF c \in DOMAIN amounts THEN amounts[c] ELSE ans[c]]

get_hourly_amount_of_data(p, ds, hour_timestamp) ==
    LET args == <<p, ds, hour_timestamp>>
        op == "get_hourly_amount_of_data"
    IN
    /\ UNCHANGED calls
    /\ UNCHANGED <<column, data_source, data_source_column, participant,
                   campaign_data_source, data, hourly_stats, system_tz,
                   core_campaign, supervisor, connections, durable>>
    /\ IF ~isinstance(hour_timestamp, "datetime")
       THEN ret' = Raised(op, args, "TypeError")
       ELSE IF hour_timestamp.tz # "utc"
       THEN ret' = Raised(op, args, "ValueError")
       ELSE LET hour == floor_to_hour(hour_timestamp.wall)
                ans == zero_amounts(get_data_source_columns(ds))
                stats == stats_for(hourly_stats, p, ds, hour)
            IN  IF stats = 0
                THEN ret' = Returned(op, args, ans)
                ELSE ret' = Returned(op, args,
                                merge_amounts(ans, int_keys(hourly_stats[stats].amount)))

(***************************************************************************)
(* create_column. The accept_values argument is a string given as the      *)
(* sequence of its characters, so that split and strip work on it.         *)
(***************************************************************************)
PyBool(b) == [t |-> "bool", v |-> b]

Digits == {"1", "2"}

\* x.split(','): the pieces between the commas, at least one piece
RECURSIVE split(_)
split(chars) ==
    IF \A i \in DOMAIN chars : chars[i] # "," THEN <<chars>>
    ELSE LET i == CHOOSE i \in DOMAIN chars :
                      chars[i] = "," /\ \A j \in 1 .. i - 1 : chars[j] # ","
         IN  <<SubSeq(chars, 1, i - 1)>> \o split(SubSeq(chars, i + 1, Len(chars)))

\* x.strip(): without the blanks at both ends
RECURSIVE strip(_)
strip(chars) ==
    IF chars = <<>> THEN chars
    ELSE IF chars[1] = " " THEN strip(Tail(chars))
    ELSE IF chars[Len(chars)] = " " THEN strip(SubSeq(chars, 1, Len(chars) - 1))
    ELSE chars

\* the characters as one string
RECURSIVE str(_)
str(chars) == IF chars = <<>> THEN "" ELSE chars[1] \o str(Tail(chars))

\* int(value) does not raise
int_parses(chars) == chars # <<>> /\ \A i \in DOMAIN chars : chars[i] \in Digits

\* float(value) does not raise
float_parses(chars) ==
    /\ \A i \in DOMAIN chars : chars[i] \in Digits \cup {"."}
    /\ \E i \in DOMAIN chars : chars[i] \in Digits
    /\ Cardinality({i \in DOMAIN chars : chars[i] = "."}) <= 1

\* tmp = [str.strip(x) for x in accept_values.strip().split(',')]
accept_values_entries(accept_values) ==
    LET pieces == split(strip(accept_values.s))
    IN  [k \in DOMAIN pieces |-> strip(pieces[k])]

\* the checks of accept_values, in order; "" when they pass
verify_accept_values(column_type, accept_values) ==
    LET tmp == accept_values_entries(accept_values)
    IN  IF tmp = <<>> THEN "ValueError"
        ELSE IF Len(tmp) # Cardinality({tmp[k] : k \in DOMAIN tmp}) THEN "ValueError"
        ELSE IF column_type.s = "integer" /\ \E k \in DOMAIN tmp : ~int_parses(tmp[k])
        THEN "ValueError"
        ELSE IF column_type.s = "float" /\ \E k \in DOMAIN tmp : ~float_parses(tmp[k])
        THEN "ValueError"
        ELSE ""

\* valid_type_strs = [x.name for x in ColumnTypes.all()]
valid_type_strs == {ColumnTypeNames[i] : i \in DOMAIN ColumnTypeNames}

\* the checks of create_column, in order; "" when they pass
create_column_verify(name, column_type, is_categorical, accept_values) ==
    IF falsy(name) THEN "ValueError"
    ELSE IF name.s = TIMESTAMP THEN "ValueError"
    ELSE IF ~(column_type.t = "str" /\ column_type.s \in valid_type_strs) THEN "ValueError"
    ELSE IF is_categorical = PyNone THEN "ValueError"
    ELSE IF column_type.s = "text" /\ ~is_categorical.v THEN "ValueError"
    ELSE IF accept_values # PyNone THEN verify_accept_values(column_type, accept_values)
    ELSE ""

\* accept_values_str = ','.join(tmp), as the list of entries it splits into again;
\* '' (like None) is a column that accepts every value
stored_accept_values(accept_values) ==
    IF accept_values = PyNone THEN <<>>
    ELSE LET tmp == accept_values_entries(accept_values)
         IN  IF tmp = <<<<>>>> THEN <<>> ELSE [k \in DOMAIN tmp |-> str(tmp[k])]

create_column(name, column_type, is_categorical, accept_values) ==
    LET args == <<name, column_type, is_categorical, accept_values>>
        op == "create_column"
        exc == create_column_verify(name, column_type, is_categorical, accept_values)
    IN
    /\ UNCHANGED calls
    /\ UNCHANGED <<data_source, data_source_column, participant, campaign_data_source,
                   data, hourly_stats, system_tz, core_campaign, supervisor,
                   connections, durable>>
    /\ IF exc # ""
       THEN /\ ret' = Raised(op, args, exc)
            /\ UNCHANGED column
       ELSE /\ column' = Append(column, Column(name.s, column_type.s, is_categorical.v,
                                               stored_accept_values(accept_values)))
            /\ ret' = Returned(op, args, Len(column) + 1)

(***************************************************************************)
(* Campaigns. A day is 48 ticks.                                           *)
(***************************************************************************)
Day == 48

\* datetime.today() at midnight
Today == 2 * Day

Campaign(owner, name, start_ts, end_ts) ==
    [owner |-> owner, name |-> name, start_ts |-> start_ts, end_ts |-> end_ts]

\* (end_ts - start_ts).days
days(start_ts, end_ts) == (end_ts - start_ts) \div Day

\* the argument checks of create_campaign, in order; "" when they pass
create_campaign_verify(owner, name, start_ts, end_ts) ==
    IF ~isinstance(start_ts, "datetime") \/ ~isinstance(end_ts, "datetime") THEN "TypeError"
    ELSE IF start_ts.wall < Today THEN "ValueError"
    ELSE IF end_ts.wall <= start_ts.wall THEN "ValueError"
    ELSE IF days(start_ts.wall, end_ts.wall) < 1 THEN "ValueError"
    ELSE IF name = PyNone THEN "ValueError"
    ELSE ""

\* a create_campaign that adds no supervisor
create_campaign_without_supervisor(owner, name, start_ts, end_ts, data_sources) ==
    LET args == <<owner, name, start_ts, end_ts, data_sources>>
        op == "create_campaign"
        exc == create_campaign_verify(owner, name, start_ts, end_ts)
        id == Len(core_campaign) + 1
    IN
    /\ UNCHANGED calls
    /\ UNCHANGED <<column, data_source, data_source_column, participant, data,
                   hourly_stats, system_tz, connections, durable, supervisor>>
    /\ IF exc # ""
       THEN /\ ret' = Raised(op, args, exc)
            /\ UNCHANGED <<core_campaign, campaign_data_source>>
       ELSE /\ core_campaign' = Append(core_campaign,
                               Campaign(owner, name.s, start_ts.wall, end_ts.wall))
            /\ campaign_data_source' =
                   campaign_data_source \cup {<<id, ds>> : ds \in data_sources}
            /\ ret' = Returned(op, args, id)

create_campaign(owner, name, start_ts, end_ts, data_sources) ==
    LET args == <<owner, name, start_ts, end_ts, data_sources>>
        op == "create_campaign"
        exc == create_campaign_verify(owner, name, start_ts, end_ts)
        id == Len(core_campaign) + 1
    IN
    /\ UNCHANGED calls
    /\ UNCHANGED <<column, data_source, data_source_column, participant, data,
                   hourly_stats, system_tz, connections, durable>>
    /\ IF exc # ""
       THEN /\ ret' = Raised(op, args, exc)
            /\ UNCHANGED <<core_campaign, supervisor, campaign_data_source>>
       ELSE /\ core_campaign' = Append(core_campaign,
                               Campaign(owner, name.s, start_ts.wall, end_ts.wall))
            /\ supervisor' = supervisor \cup {<<id, owner>>}
            \* a new campaign has no participant: binding creates no table
            /\ campaign_data_source' =
                   campaign_data_source \cup {<<id, ds>> : ds \in data_sources}
            /\ ret' = Returned(op, args, id)

\* the tables update_campaign creates while binding the data sources that are new
update_campaign_tables(campaign_id, new_data_sources) ==
    UNION {data_source_tables(campaign_id, ds) : ds \in new_data_sources}

update_campaign(sup, name, start_ts, end_ts, data_sources) ==
    LET args == <<sup, name, start_ts, end_ts, data_sources>>
        op == "update_campaign"
        id == sup[1]
        prev_data_sources == get_campaign_data_sources(id)
        removed == prev_data_sources \ data_sources
        added == data_sources \ prev_data_sources
    IN
    /\ UNCHANGED calls
    /\ UNCHANGED <<column, data_source, data_source_column, participant,
                   hourly_stats, system_tz, supervisor>>
    /\ IF name = PyNone \/ start_ts = PyNone \/ end_ts = PyNone
       THEN /\ ret' = Raised(op, args, "ValueError")
            /\ UNCHANGED <<core_campaign, campaign_data_source, data, connections, durable>>
       ELSE /\ core_campaign' = [core_campaign EXCEPT ![id].name = name.s,
                                            ![id].start_ts = start_ts.wall,
                                            ![id].end_ts = end_ts.wall]
            /\ campaign_data_source' =
                   (campaign_data_source \ {<<id, ds>> : ds \in removed})
                   \cup {<<id, ds>> : ds \in added}
            /\ data' = create_tables(data, update_campaign_tables(id, added))
            /\ committed_by_create_tables(update_campaign_tables(id, added))
            /\ ret' = Returned(op, args, PyNone)

\* a removal that also drops the tables of the data source
remove_campaign_data_source_dropping(campaign_id, ds) ==
    /\ UNCHANGED calls
    /\ UNCHANGED <<column, data_source, data_source_column, participant,
                   hourly_stats, system_tz, core_campaign, supervisor, connections, durable>>
    /\ campaign_data_source' = campaign_data_source \ {<<campaign_id, ds>>}
    /\ data' = [n \in DOMAIN data \ participant_tables_of(campaign_id, ds) |-> data[n]]
    /\ ret' = Returned("remove_campaign_data_source", <<campaign_id, ds>>, PyNone)

remove_campaign_data_source(campaign_id, ds) ==
    LET args == <<campaign_id, ds>>
        op == "remove_campaign_data_source"
    IN
    /\ UNCHANGED calls
    /\ UNCHANGED <<column, data_source, data_source_column, participant, data,
                   hourly_stats, system_tz, core_campaign, supervisor, connections, durable>>
    /\ campaign_data_source' =
           IF is_campaign_data_source(campaign_id, ds)
           THEN campaign_data_source \ {<<campaign_id, ds>>}
           ELSE campaign_data_source
    /\ ret' = Returned(op, args, PyNone)

(***************************************************************************)
(* Fixtures: the columns and data sources the scenarios start from.        *)
(***************************************************************************)
\* columns made by Column.create before any data source exists
FixtureColumns ==
    << Column("timestamp", "timestamp", FALSE, <<>>),
       Column("level", "integer", TRUE, <<"1", "2">>),
       Column("value", "float", FALSE, <<>>) >>

\* after create_data_source("A", [level, value]) and create_data_source("B", [value])
SchemaColumns ==
    FixtureColumns \o << Column(TIMESTAMP, "timestamp", FALSE, <<>>),
                         Column(TIMESTAMP, "timestamp", FALSE, <<>>) >>

SchemaDataSources == <<"A", "B">>

SchemaDataSourceColumns ==
    << DataSourceColumn(1, 4), DataSourceColumn(1, 2), DataSourceColumn(1, 3),
       DataSourceColumn(2, 5), DataSourceColumn(2, 3) >>

\* two campaigns of one day, owned and supervised by user 1
FixtureCampaigns ==
    << Campaign(1, "first", Today, Today + Day), Campaign(1, "second", Today, Today + Day) >>

FixtureSupervisors == {<<1, 1>>, <<2, 1>>}

NoCall == [op |-> "", args |-> <<>>, raised |-> ""]

\* no call is in flight: every call runs from its start to its return in one step
NoCalls == <<>>

(***************************************************************************)
(* Spec: campaigns gain participants and data sources, in any order.       *)
(***************************************************************************)
Init ==
    /\ column = SchemaColumns
    /\ data_source = SchemaDataSources
    /\ data_source_column = SchemaDataSourceColumns
    /\ participant = {}
    /\ campaign_data_source = {}
    /\ data = NoTables
    /\ hourly_stats = <<>>
    /\ system_tz = "utc"
    /\ core_campaign = FixtureCampaigns
    /\ supervisor = FixtureSupervisors
    /\ connections = NoConnections
    /\ durable = data
    /\ ret = NoCall
    /\ calls = NoCalls

AddParticipant ==
    \E campaign \in Campaigns, user \in Users : add_campaign_participant(campaign, user)

AddDataSource ==
    \E campaign \in Campaigns, ds \in DOMAIN data_source :
        add_campaign_data_source(campaign, ds)

Next == AddParticipant \/ AddDataSource

Spec == Init /\ [][Next]_vars

(***************************************************************************)
(* SpecSchema: data sources are created from previously created columns.   *)
(***************************************************************************)
NameArgs == {PyNone, PyStr(""), PyStr("A"), PyStr("B")}

RECURSIVE SeqsUpTo(_, _)
SeqsUpTo(S, n) ==
    IF n = 0 THEN {<<>>}
    ELSE SeqsUpTo(S, n - 1)
         \cup {Append(q, x) : q \in {r \in SeqsUpTo(S, n - 1) : Len(r) = n - 1}, x \in S}

ColumnsArgs ==
    {PyNone} \cup {PyList(q) : q \in SeqsUpTo(DOMAIN FixtureColumns, MaxColumnsArg)}

InitSchema ==
    /\ column = FixtureColumns
    /\ data_source = <<>>
    /\ data_source_column = <<>>
    /\ participant = {}
    /\ campaign_data_source = {}
    /\ data = NoTables
    /\ hourly_stats = <<>>
    /\ system_tz = "utc"
    /\ core_campaign = FixtureCampaigns
    /\ supervisor = FixtureSupervisors
    /\ connections = NoConnections
    /\ durable = data
    /\ ret = NoCall
    /\ calls = NoCalls

CreateDataSource ==
    \E name \in NameArgs, columns \in ColumnsArgs : create_data_source(name, columns)

NextSchema == CreateDataSource

SpecSchema == InitSchema /\ [][NextSchema]_vars

(***************************************************************************)
(* SpecColumn: columns are created from every kind of argument.            *)
(***************************************************************************)
ColumnNameArgs == {PyNone, PyStr(""), PyStr(TIMESTAMP), PyStr("x")}

ColumnTypeArgs == {PyStr(column_type) : column_type \in valid_type_strs \cup {"dummy"}}

IsCategoricalArgs == {PyNone, PyBool(TRUE), PyBool(FALSE)}

AcceptValuesArgs ==
    {PyNone} \cup {PyStr(chars) : chars \in SeqsUpTo({"1", "a", ",", " ", "."}, MaxAcceptLen)}

\* every name, every type with every is_categorical, and every accept_values for
\* every type
ColumnArgs ==
    {<<name, PyStr("text"), PyBool(TRUE), PyNone>> : name \in ColumnNameArgs}
    \cup {<<PyStr("x"), column_type, is_categorical, PyNone>> :
              column_type \in ColumnTypeArgs, is_categorical \in IsCategoricalArgs}
    \cup {<<PyStr("x"), column_type, PyBool(TRUE), accept_values>> :
              column_type \in ColumnTypeArgs, accept_values \in AcceptValuesArgs}

CreateColumn ==
    /\ Len(column) < Len(FixtureColumns) + MaxCreated
    /\ \E args \in ColumnArgs : create_column(args[1], args[2], args[3], args[4])

NextColumn == CreateColumn

SpecColumn == InitSchema /\ [][NextColumn]_vars

(***************************************************************************)
(* SpecInsert: records of every shape are offered to the raw table of      *)
(* participant (1, 1) and data source "A" (level: integer in 1,2; value:   *)
(* float).                                                                 *)
(***************************************************************************)
TheParticipant == <<1, 1>>

InitTables ==
    /\ column = SchemaColumns
    /\ data_source = SchemaDataSources
    /\ data_source_column = SchemaDataSourceColumns
    /\ participant = {TheParticipant}
    /\ campaign_data_source = {<<1, 1>>, <<1, 2>>}
    /\ data = create_tables(NoTables,
                  {DataTable_table_name(1, 1, 1), AggDataTable_table_name(1, 1, 1),
                   DataTable_table_name(1, 1, 2), AggDataTable_table_name(1, 1, 2)})
    /\ hourly_stats = <<>>
    /\ system_tz = "utc"
    /\ core_campaign = FixtureCampaigns
    /\ supervisor = FixtureSupervisors
    /\ connections = DataConnection
    /\ durable = data
    /\ ret = NoCall
    /\ calls = NoCalls

LevelId == PyInt(2)
ValueId == PyInt(3)
LevelName == PyStr("level")

LevelByIdArgs == {PyInt(1), PyInt(3), PyFloat(10), PyStr("1")}
ValueByIdArgs == {PyFloat(35), PyInt(7)}
LevelByNameArgs == {PyInt(1), PyInt(3)}

KeyArgs(k) ==
    CASE k = LevelId -> LevelByIdArgs
      [] k = ValueId -> ValueByIdArgs
      [] OTHER -> LevelByNameArgs

ValueDicts ==
    UNION { {d \in [K -> LevelByIdArgs \cup ValueByIdArgs \cup LevelByNameArgs] :
                \A k \in K : d[k] \in KeyArgs(k)}
            : K \in SUBSET {LevelId, ValueId, LevelName} }

ValueArgs == {PyNone} \cup {PyDict(d) : d \in ValueDicts}

InsertTimestampArgs ==
    {PyDatetime(0, "naive"), PyDatetime(1, "utc"), PyStr("2023-01-01 00:00"), PyNone}

InsertRecord ==
    /\ Len(data[DataTable_table_name(1, 1, 1)]) < MaxRows
    /\ \E timestamp \in InsertTimestampArgs, value \in ValueArgs :
           insert(TheParticipant, 1, timestamp, value, TRUE)

NextInsert == InsertRecord

SpecInsert == InitTables /\ [][NextInsert]_vars

(***************************************************************************)
(* SpecQuery: records with timestamps in every time zone go into the raw   *)
(* table of participant (1, 1) and data source "B" (value: float), and the *)
(* table is queried.                                                       *)
(***************************************************************************)
TimestampArgs ==
    {PyDatetime(wall, tz) : wall \in 0 .. MaxWall, tz \in {"naive", "other"}}

QueryValueArgs == {PyDict(ValueId :> PyFloat(35)), PyDict(<<>>)}

InsertTimed ==
    /\ Len(data[DataTable_table_name(1, 1, 2)]) < MaxRows
    /\ \E timestamp \in TimestampArgs, value \in QueryValueArgs :
           insert(TheParticipant, 2, timestamp, value, TRUE)

SelectCount ==
    \E from_ts \in TimestampArgs, till_ts \in TimestampArgs :
        select_count(TheParticipant, 2, from_ts, till_ts)

SelectFirstTs == select_first_ts(TheParticipant, 2)

SelectLastTs == select_last_ts(TheParticipant, 2)

NextQuery == InsertTimed \/ SelectCount \/ SelectFirstTs \/ SelectLastTs

SpecQuery == InitTables /\ [][NextQuery]_vars

(***************************************************************************)
(* Claims on the fan-out of table creation (Spec).                         *)
(***************************************************************************)
both_tables_exist(campaign, user, ds) ==
    /\ table_exists(DataTable_table_name(campaign, user, ds))
    /\ table_exists(AggDataTable_table_name(campaign, user, ds))

\* C1: after any sequence of add_campaign_data_source and add_campaign_participant
\* calls, every (participant, bound data source) pair of a campaign has its raw and
\* its aggregated table, whichever of the two was added first.
C1_FanOutComplete ==
    \A campaign \in Campaigns, user \in Users, ds \in DOMAIN data_source :
        (is_participant(campaign, user) /\ is_campaign_data_source(campaign, ds))
            => both_tables_exist(campaign, user, ds)

\* C2: add_campaign_data_source of a data source that was not bound returns with the
\* raw and the aggregated table of every participant of the campaign in place.
C2_DataSourceFanOut ==
    (ret.op = "add_campaign_data_source" /\ ret.value)
        => \A p \in get_campaign_participants(ret.args[1]) :
               both_tables_exist(p[1], p[2], ret.args[2])

valid_entry(c, value) ==
    /\ PyInt(c) \in DOMAIN value.d
    /\ isinstance(value.d[PyInt(c)], py_type(column[c].column_type))
    /\ column[c].accept_values # <<>>
           => py_in(value.d[PyInt(c)], accepted_values(column[c]))

valid_value(ds, value) ==
    \A k \in DOMAIN non_reserved(column, get_data_source_columns(ds)) :
        valid_entry(non_reserved(column, get_data_source_columns(ds))[k], value)

well_formed_insert ==
    /\ ret.op = "insert"
    /\ isinstance(ret.args[3], "datetime")
    /\ isinstance(ret.args[4], "dict")

\* C4: insert succeeds if and only if every non-timestamp column has an entry keyed by
\* its id, of its type and within its accept_values.
C4_InsertIffValid ==
    well_formed_insert => (ret.raised = "" <=> valid_value(ret.args[2], ret.args[4]))

\* C5: an insert whose arguments are invalid (a timestamp that is no datetime, a missing
\* column, a wrong-typed value, a value outside accept_values) raises a validation error,
\* and no insert that raises changes the rows.
C5_InvalidRaisesValidationError ==
    ( /\ ret.op = "insert"
      /\ ~(well_formed_insert /\ valid_value(ret.args[2], ret.args[4])) )
        => ret.raised = "ValueError"

\* C5, the part on writes: an insert that raises leaves every table as it was
C5_RaiseWritesNothing ==
    [][(ret'.op = "insert" /\ ret'.raised # "") => data' = data]_vars

(***************************************************************************)
(* Claims on the queries (SpecQuery).                                      *)
(***************************************************************************)
TheTable == data[DataTable_table_name(1, 1, 2)]

\* C8: select_count returns the number of rows with from_ts <= timestamp < till_ts,
\* the bounds taken as naive UTC: all rows when they all lie in the range, none for an
\* empty range, and never a row at till_ts.
C8_SelectCount ==
    (ret.op = "select_count") =>
        LET from_ts == strip_tz(ret.args[3])
            till_ts == strip_tz(ret.args[4])
            inside == {i \in DOMAIN TheTable :
                          from_ts <= TheTable[i].timestamp /\ TheTable[i].timestamp < till_ts}
        IN  /\ ret.raised = ""
            /\ ret.value = Cardinality(inside)
            /\ from_ts = till_ts => ret.value = 0
            /\ (\A i \in DOMAIN TheTable : i \in inside) => ret.value = Len(TheTable)
            /\ (\A i \in DOMAIN TheTable : TheTable[i].timestamp = till_ts) => ret.value = 0

\* two rows in the range and one at till_ts: the count is two
C8_Witness ==
    /\ ret.op = "select_count"
    /\ ret.value = MaxRows - 1
    /\ Len(TheTable) = MaxRows
    /\ \E i \in DOMAIN TheTable : TheTable[i].timestamp = strip_tz(ret.args[4])
    /\ ret.args[3].tz # ret.args[4].tz

\* C9: select_first_ts and select_last_ts return the least and the greatest timestamp
\* of the rows inserted, None for an empty table, and first <= last.
C9_FirstLastTs ==
    LET stamps == {TheTable[i].timestamp : i \in DOMAIN TheTable}
        first_ts == select_first_ts_of(TheTable, 2)
        last_ts == select_last_ts_of(TheTable, 2)
    IN  /\ (ret.op = "select_first_ts") =>
               IF stamps = {} THEN ret.value = PyNone
               ELSE /\ ret.value.t = "datetime"
                    /\ ret.value.wall \in stamps
                    /\ \A t \in stamps : ret.value.wall <= t
        /\ (ret.op = "select_last_ts") =>
               IF stamps = {} THEN ret.value = PyNone
               ELSE /\ ret.value.t = "datetime"
                    /\ ret.value.wall \in stamps
                    /\ \A t \in stamps : ret.value.wall >= t
        /\ stamps # {} => first_ts.wall <= last_ts.wall

\* the last timestamp was read from a table whose rows were not inserted in time order
C9_Witness ==
    /\ ret.op = "select_last_ts"
    /\ Len(TheTable) = MaxRows
    /\ TheTable[1].timestamp > TheTable[MaxRows].timestamp
    /\ ret.value.wall = TheTable[1].timestamp

(***************************************************************************)
(* SpecHourly: snapshots of data source "A" are written for participant    *)
(* (1, 1) and read back, with timestamps in every time zone.               *)
(***************************************************************************)
HourArgs ==
    {PyNone} \cup
    {PyDatetime(wall, tz) : wall \in 0 .. MaxWall, tz \in {"naive", "utc", "other"}}

Histogram(keys, n) == [k \in keys |-> n]

AmountArgs ==
    { PyDict(LevelId :> Histogram({"1", "2"}, 1) @@ ValueId :> Histogram({"amount"}, 1)),
      PyDict(LevelId :> Histogram({"1", "2"}, 2) @@ ValueId :> Histogram({"amount"}, 2)),
      PyDict(ValueId :> Histogram({"amount"}, 3)),
      PyDict(PyInt(5) :> Histogram({"amount"}, 1)) }

InitHourly ==
    /\ column = SchemaColumns
    /\ data_source = SchemaDataSources
    /\ data_source_column = SchemaDataSourceColumns
    /\ participant = {TheParticipant}
    /\ campaign_data_source = {<<1, 1>>, <<1, 2>>}
    /\ data = create_tables(NoTables,
                  {DataTable_table_name(1, 1, 1), AggDataTable_table_name(1, 1, 1),
                   DataTable_table_name(1, 1, 2), AggDataTable_table_name(1, 1, 2)})
    /\ hourly_stats = <<>>
    /\ system_tz \in {"utc", "other"}
    /\ core_campaign = FixtureCampaigns
    /\ supervisor = FixtureSupervisors
    /\ connections = DataConnection
    /\ durable = data
    /\ ret = NoCall
    /\ calls = NoCalls

CreateHourlyStats ==
    \E hour_timestamp \in HourArgs, amount \in AmountArgs :
        /\ create_hourly_stats(TheParticipant, 1, hour_timestamp, amount)
        /\ Len(hourly_stats') <= MaxStats

GetHourlyAmount ==
    \E hour_timestamp \in HourArgs :
        get_hourly_amount_of_data(TheParticipant, 1, hour_timestamp)

NextHourly == CreateHourlyStats \/ GetHourlyAmount

SpecHourly == InitHourly /\ [][NextHourly]_vars

(***************************************************************************)
(* Claims on the hourly statistics (SpecHourly).                           *)
(***************************************************************************)
\* the counts the snapshot rows give for `hour`: those of the latest row at or before
\* it, zeros when there is none
forward_filled(hour) ==
    LET before == stats_lte(hourly_stats, TheParticipant, 1, hour)
        zeros == zero_amounts(get_data_source_columns(1))
    IN  IF before = {} THEN {zeros}
        ELSE {merge_amounts(zeros, int_keys(hourly_stats[i].amount)) :
                 i \in {i \in before :
                           \A j \in before :
                               hourly_stats[i].timestamp >= hourly_stats[j].timestamp}}

\* C10: get_hourly_amount_of_data answers, for any query time, with the counts of the
\* stored row with the greatest hour_timestamp <= the query time floored to the hour,
\* and with zeros when the query time is before every stored hour.
C10_ForwardFill ==
    (ret.op = "get_hourly_amount_of_data" /\ isinstance(ret.args[3], "datetime"))
        => /\ ret.raised = ""
           /\ ret.value \in forward_filled(floor_to_hour(astimezone_utc_naive(ret.args[3])))

\* C10, for the query times the code accepts: a UTC-aware query time is answered by
\* forward fill
C10_ForwardFillOfUtc ==
    (ret.op = "get_hourly_amount_of_data" /\ isinstance(ret.args[3], "datetime")
        /\ ret.args[3].tz = "utc")
        => /\ ret.raised = ""
           /\ ret.value \in forward_filled(floor_to_hour(astimezone_utc_naive(ret.args[3])))

\* the row of hourly_stats a call of create_hourly_stats is about
same_key(row, p, ds, hour) ==
    row.participant = p /\ row.data_source = ds /\ row.timestamp = hour

\* C11: create_hourly_stats is an upsert: there is at most one row per (participant,
\* data source, hour), every stored hour has no minutes, and after a call the row of
\* its key holds the amount of that call while the rows of other keys are as before.
C11_Upsert ==
    /\ [](\A i, j \in DOMAIN hourly_stats :
             /\ hourly_stats[i].timestamp % 2 = 0
             /\ same_key(hourly_stats[i], hourly_stats[j].participant,
                         hourly_stats[j].data_source, hourly_stats[j].timestamp) => i = j)
    /\ [][(ret'.op = "create_hourly_stats" /\ ret'.raised = "") =>
            LET p == ret'.args[1]
                ds == ret'.args[2]
                hour == floor_to_hour(astimezone_utc_naive(ret'.args[3]))
                amount == ret'.args[4].d
            IN  /\ \E i \in DOMAIN hourly_stats' :
                       /\ same_key(hourly_stats'[i], p, ds, hour)
                       /\ int_keys(hourly_stats'[i].amount)
                              = [n \in {k.v : k \in DOMAIN amount} |-> amount[PyInt(n)]]
                /\ \A i \in DOMAIN hourly_stats :
                       ~same_key(hourly_stats[i], p, ds, hour)
                           => hourly_stats'[i] = hourly_stats[i]
                /\ Len(hourly_stats') <= Len(hourly_stats) + 1
         ]_vars

\* a call at a time past the hour replaced the amount of the row stored first, with
\* another row in the table
C11_Witness ==
    /\ ret.op = "create_hourly_stats"
    /\ ret.raised = ""
    /\ ret.args[3].wall % 2 = 1
    /\ Len(hourly_stats) = MaxStats
    /\ same_key(hourly_stats[1], ret.args[1], ret.args[2],
                floor_to_hour(astimezone_utc_naive(ret.args[3])))

\* C12: create_hourly_stats raises a validation error when a key of amount is not the
\* id of a column of the data source, and then hourly_stats is as it was.
C12_InvalidColumnId ==
    [][( /\ ret'.op = "create_hourly_stats"
         /\ \E key \in DOMAIN ret'.args[4].d :
                ~\E i \in DOMAIN data_source_column :
                     /\ data_source_column[i].data_source = ret'.args[2]
                     /\ PyInt(data_source_column[i].column) = key )
        => /\ ret'.raised = "ValueError"
           /\ hourly_stats' = hourly_stats
      ]_vars

\* a call keyed by a column of another data source was refused with a row in store
C12_Witness ==
    /\ ret.op = "create_hourly_stats"
    /\ ret.raised = "ValueError"
    /\ isinstance(ret.args[3], "datetime")
    /\ PyInt(5) \in DOMAIN ret.args[4].d
    /\ Len(hourly_stats) >= 1

(***************************************************************************)
(* Claims on create_column (SpecColumn).                                   *)
(***************************************************************************)
\* an entry of accept_values that reads as a value of the column type
entry_parses(column_type, entry) ==
    CASE column_type = "integer" -> int_parses(entry)
      [] column_type = "float" -> float_parses(entry)
      [] OTHER -> TRUE

\* accept_values with a duplicate, an empty entry, or an entry that does not parse
invalid_accept_values(column_type, accept_values) ==
    LET entries == accept_values_entries(accept_values)
    IN  \/ \E i, j \in DOMAIN entries : i # j /\ entries[i] = entries[j]
        \/ \E i \in DOMAIN entries : entries[i] = <<>>
        \/ \E i \in DOMAIN entries : ~entry_parses(column_type, entries[i])

invalid_column(name, column_type, is_categorical, accept_values) ==
    \/ name \in {PyNone, PyStr(""), PyStr(TIMESTAMP)}
    \/ column_type \notin {PyStr("timestamp"), PyStr("text"), PyStr("integer"), PyStr("float")}
    \/ is_categorical = PyNone
    \/ column_type = PyStr("text") /\ is_categorical = PyBool(FALSE)
    \/ accept_values # PyNone /\ invalid_accept_values(column_type.s, accept_values)

\* C13: create_column raises, and stores no Column row, for a name that is empty or
\* reserved, an unknown column type, an is_categorical of None, a text column that is
\* not categorical, and accept_values with a duplicate, an empty entry or an entry that
\* does not parse as the column type, whatever the column type.
C13_CreateColumnRejects ==
    [][( /\ ret'.op = "create_column"
         /\ invalid_column(ret'.args[1], ret'.args[2], ret'.args[3], ret'.args[4]) )
        => /\ ret'.raised # ""
           /\ column' = column
      ]_vars

(***************************************************************************)
(* Claims on the schema model (SpecSchema).                                *)
(***************************************************************************)
schema_unchanged == UNCHANGED <<column, data_source, data_source_column>>

\* C6, as stated: a call of create_data_source with the name of an existing data
\* source returns that data source, whatever columns it is given, and adds no row.
C6_IdempotentByName ==
    [][\A i \in DOMAIN data_source :
          (ret'.op = "create_data_source" /\ ret'.args[1] = PyStr(data_source[i]))
          => /\ ret'.raised = ""
             /\ ret'.value = i
             /\ schema_unchanged
      ]_vars

\* C6, amended: a call of create_data_source with the name of an existing data source
\* adds no row; given a non-empty list of columns it returns that data source, and
\* given an empty list or None it raises ValueError.
C6_IdempotentByNameGivenColumns ==
    [][\A i \in DOMAIN data_source :
          (ret'.op = "create_data_source" /\ ret'.args[1] = PyStr(data_source[i]))
          => /\ schema_unchanged
             /\ IF falsy(ret'.args[2])
                THEN ret'.raised = "ValueError"
                ELSE ret'.raised = "" /\ ret'.value = i
      ]_vars

\* the first data source was returned again, for columns other than its own
C6_Witness ==
    /\ ret.op = "create_data_source"
    /\ ret.raised = ""
    /\ Len(data_source) = 2
    /\ ret.value = 1
    /\ Len(ret.args[2].q) + 1 # Len(get_data_source_columns(1))

\* C7: the columns of every data source are one column named `timestamp`, first, then
\* the caller's columns that are not named `timestamp`, in the order given; the list of
\* a data source never changes afterwards.
C7_TimestampFirst ==
    /\ [](\A d \in DOMAIN data_source :
             LET columns == get_data_source_columns(d)
             IN  /\ Len(columns) >= 1
                 /\ column[columns[1]].name = TIMESTAMP
                 /\ \A k \in 2 .. Len(columns) : column[columns[k]].name # TIMESTAMP)
    /\ [][ /\ data_source_column' # data_source_column =>
                  \A d \in DOMAIN data_source :
                      get_data_source_columns_of(data_source_column', d)
                          = get_data_source_columns(d)
           /\ Len(data_source') > Len(data_source) =>
                  LET columns == get_data_source_columns_of(data_source_column',
                                                            ret'.value)
                      given == ret'.args[2].q
                      not_timestamp(c) == column[c].name # TIMESTAMP
                  IN  /\ Len(columns) = Len(SelectSeq(given, not_timestamp)) + 1
                      /\ SubSeq(columns, 2, Len(columns)) = SelectSeq(given, not_timestamp)
         ]_vars

\* a data source made from a column named `timestamp` and another column
C7_Witness ==
    /\ ret.op = "create_data_source"
    /\ ret.raised = ""
    /\ ret.value = Len(data_source)
    /\ Len(ret.args[2].q) = MaxColumnsArg
    /\ column[ret.args[2].q[1]].name = TIMESTAMP
    /\ Len(get_data_source_columns(ret.value)) = MaxColumnsArg

\* C14: create_data_source raises when the name is empty or None or the columns are
\* empty or None, and then no DataSource, Column or DataSourceColumn row is created.
C14_InvalidArgumentsRaise ==
    [][( /\ ret'.op = "create_data_source"
         /\ \/ ret'.args[1] \in {PyNone, PyStr("")}
            \/ ret'.args[2] \in {PyNone, PyList(<<>>)} )
        => /\ ret'.raised # ""
           /\ schema_unchanged
      ]_vars

\* a call with an empty name and two columns was refused after a data source was made
C14_Witness ==
    /\ ret.op = "create_data_source"
    /\ ret.raised # ""
    /\ ret.args[1] = PyStr("")
    /\ ret.args[2] # PyNone
    /\ Len(ret.args[2].q) = MaxColumnsArg
    /\ Len(data_source) >= 1

(***************************************************************************)
(* SpecCampaign: campaigns are created and updated. Campaign 1 exists,     *)
(* with user 1 as its owner, supervisor and participant.                   *)
(***************************************************************************)
\* <<start_ts, end_ts>>: a day from today, a start in the past, an end before the
\* start, less than a day, and a missing start or end
CampaignTimeArgs ==
    { <<PyDatetime(Today, "naive"), PyDatetime(Today + Day, "naive")>>,
      <<PyDatetime(Today - 1, "naive"), PyDatetime(Today + Day, "naive")>>,
      <<PyDatetime(Today + Day, "naive"), PyDatetime(Today, "naive")>>,
      <<PyDatetime(Today, "naive"), PyDatetime(Today + Day - 1, "naive")>>,
      <<PyNone, PyDatetime(Today + Day, "naive")>>,
      <<PyDatetime(Today, "naive"), PyNone>> }

DataSourcesArgs == {{}, {1}}

InitCampaign ==
    /\ column = SchemaColumns
    /\ data_source = SchemaDataSources
    /\ data_source_column = SchemaDataSourceColumns
    /\ participant = {TheParticipant}
    /\ campaign_data_source = {}
    /\ data = NoTables
    /\ hourly_stats = <<>>
    /\ system_tz = "utc"
    /\ core_campaign = SubSeq(FixtureCampaigns, 1, 1)
    /\ supervisor = {<<1, 1>>}
    /\ connections = NoConnections
    /\ durable = data
    /\ ret = NoCall
    /\ calls = NoCalls

CreateCampaign ==
    /\ Len(core_campaign) < MaxCampaigns
    /\ \E owner \in Users, times \in CampaignTimeArgs, data_sources \in DataSourcesArgs :
           create_campaign(owner, PyStr("dummy"), times[1], times[2], data_sources)

UpdateCampaign ==
    \E sup \in supervisor, times \in CampaignTimeArgs, data_sources \in DataSourcesArgs :
        update_campaign(sup, PyStr("dummy"), times[1], times[2], data_sources)

NextCampaign == CreateCampaign \/ UpdateCampaign

SpecCampaign == InitCampaign /\ [][NextCampaign]_vars

\* C15: every stored campaign starts no earlier than the day it was set, ends after it
\* starts, and lasts at least a day.
C15_CampaignTimes ==
    \A id \in DOMAIN core_campaign :
        /\ core_campaign[id].start_ts >= Today
        /\ core_campaign[id].end_ts > core_campaign[id].start_ts
        /\ core_campaign[id].end_ts - core_campaign[id].start_ts >= Day

\* C15, for create_campaign alone: a call that breaks the rule raises and stores no
\* Campaign and no Supervisor row
C15_CreateCampaignRejects ==
    [][( /\ ret'.op = "create_campaign"
         /\ ~( /\ isinstance(ret'.args[3], "datetime") /\ isinstance(ret'.args[4], "datetime")
               /\ ret'.args[3].wall >= Today
               /\ ret'.args[4].wall - ret'.args[3].wall >= Day ) )
        => /\ ret'.raised # ""
           /\ UNCHANGED <<core_campaign, supervisor>>
      ]_vars

\* C16: add_campaign_participant of a user who is already a participant of the campaign
\* returns False and creates no Participant row and no table; a Participant row is
\* its (campaign, user) pair, so there is never a second row for a pair.
C16_ParticipantIdempotent ==
    [][\A campaign \in Campaigns, user \in Users :
          ( /\ ret'.op = "add_campaign_participant"
            /\ ret'.args = <<campaign, user>>
            /\ <<campaign, user>> \in participant )
          => /\ ret'.value = FALSE
             /\ participant' = participant
             /\ data' = data
      ]_vars

\* a participant of a campaign with a data source bound was added once more
C16_Witness ==
    /\ ret.op = "add_campaign_participant"
    /\ ret.value = FALSE
    /\ get_campaign_data_sources(ret.args[1]) # {}
    /\ Cardinality(get_campaign_participants(ret.args[1])) = MaxUsers

(***************************************************************************)
(* SpecUnbind: participant (1, 1) has the tables of data sources "A" and   *)
(* "B"; records go into a table, data sources are removed from campaign 1  *)
(* and bound again, and users join it.                                     *)
(***************************************************************************)
InsertOne ==
    /\ Len(data[DataTable_table_name(1, 1, 2)]) < MaxRows
    /\ insert(TheParticipant, 2, PyDatetime(0, "naive"), PyDict(ValueId :> PyFloat(35)), TRUE)

Unbind == \E ds \in DOMAIN data_source : remove_campaign_data_source(1, ds)

Bind == \E ds \in DOMAIN data_source : add_campaign_data_source(1, ds)

Join == \E user \in Users : add_campaign_participant(1, user)

NextUnbind == InsertOne \/ Unbind \/ Bind \/ Join

SpecUnbind == InitTables /\ [][NextUnbind]_vars

\* C17: remove_campaign_data_source deletes the association and nothing else: every
\* table keeps existing with its rows; and a user who joins the campaign gets no table
\* for a data source that is not bound to it.
C17_RemoveKeepsTables ==
    [][ /\ (ret'.op = "remove_campaign_data_source") =>
               /\ data' = data
               /\ durable' = durable
               /\ participant' = participant
               /\ campaign_data_source' = campaign_data_source \ {<<ret'.args[1], ret'.args[2]>>}
        /\ (ret'.op = "add_campaign_participant" /\ ret'.value) =>
               \A ds \in DOMAIN data_source :
                   <<ret'.args[1], ds>> \notin campaign_data_source =>
                       /\ DataTable_table_name(ret'.args[1], ret'.args[2], ds)
                              \notin DOMAIN data'
                       /\ AggDataTable_table_name(ret'.args[1], ret'.args[2], ds)
                              \notin DOMAIN data'
      ]_vars

\* after data source "B" was removed from campaign 1, user 2 joined: the table of
\* participant (1, 1) for "B" still holds its rows, and user 2 has tables for "A" alone
C17_Witness ==
    /\ ret.op = "add_campaign_participant"
    /\ ret.args = <<1, 2>>
    /\ ret.value
    /\ campaign_data_source = {<<1, 1>>}
    /\ DataTable_table_name(1, 1, 2) \in DOMAIN data
    /\ Len(data[DataTable_table_name(1, 1, 2)]) = MaxRows
    /\ DataTable_table_name(1, 2, 1) \in DOMAIN data
    /\ DataTable_table_name(1, 2, 2) \notin DOMAIN data

(***************************************************************************)
(* The connection pool and the table wrappers as a caller uses them.       *)
(* `data` is what the connection of schema `data` sees, `durable` is what  *)
(* has been committed. The state of a transaction after a failed statement *)
(* is not modelled.                                                        *)
(***************************************************************************)
SharedFrame ==
    UNCHANGED <<column, data_source, data_source_column, participant,
                campaign_data_source, hourly_stats, system_tz, core_campaign, supervisor>>

\* the connections held by the pool
cached(cons) == {cons.cache[n] : n \in DOMAIN cons.cache}

\* Connections.get(schema_name)
get(schema_name) ==
    /\ UNCHANGED calls
    /\ connections' = Connections_get(connections, schema_name)
    /\ ret' = Returned("Connections.get", <<schema_name>>,
                       Connections_get(connections, schema_name).cache[schema_name])
    /\ UNCHANGED <<data, durable>>
    /\ SharedFrame

\* Connections.close_all(commit): a connection closed without a commit rolls back
close_all(commit) ==
    /\ UNCHANGED calls
    /\ connections' = [connections EXCEPT
                          !.cache = [n \in {} |-> 0],
                          !.closed = @ \cup cached(connections)]
    /\ durable' = IF commit THEN data ELSE durable
    /\ data' = IF commit THEN data ELSE durable
    /\ ret' = Returned("close_all", <<commit>>, PyNone)
    /\ SharedFrame

\* the column list of `create table`: empty when the data source has no column
\* besides `timestamp`, and then the statement ends in `, )`
columns_sql(ds) == non_reserved(column, get_data_source_columns(ds))

\* DataTable(participant, data_source).create_table()
DataTable_create_table(p, ds) ==
    LET args == <<p, ds>>
        op == "create_table"
        table_name == DataTable_table_name(p[1], p[2], ds)
    IN
    /\ UNCHANGED calls
    /\ connections' = Connections_get(connections, "data")
    /\ SharedFrame
    /\ IF columns_sql(ds) = <<>>
       THEN /\ ret' = Raised(op, args, "SyntaxError")
            /\ UNCHANGED <<data, durable>>
       ELSE /\ data' = create_table(data, table_name)
            /\ durable' = data'
            /\ ret' = Returned(op, args, PyNone)

\* DataTable(participant, data_source).drop_table()
DataTable_drop_table(p, ds) ==
    LET args == <<p, ds>>
        op == "drop_table"
        table_name == DataTable_table_name(p[1], p[2], ds)
    IN
    /\ UNCHANGED calls
    /\ connections' = Connections_get(connections, "data")
    /\ SharedFrame
    /\ data' = drop_table(data, table_name)
    /\ durable' = data'
    /\ ret' = Returned(op, args, PyNone)

\* DataTable(participant, data_source).table_exists()
DataTable_table_exists(p, ds) ==
    /\ UNCHANGED calls
    /\ connections' = Connections_get(connections, "data")
    /\ SharedFrame
    /\ UNCHANGED <<data, durable>>
    /\ ret' = Returned("table_exists", <<p, ds>>,
                       table_exists(DataTable_table_name(p[1], p[2], ds)))

\* DataTable(participant, data_source).commit()
DataTable_commit(p, ds) ==
    /\ UNCHANGED calls
    /\ connections' = Connections_get(connections, "data")
    /\ SharedFrame
    /\ data' = data
    /\ durable' = data
    /\ ret' = Returned("commit", <<p, ds>>, PyNone)

(***************************************************************************)
(* SpecTables: one process works with the pool and with the raw tables of  *)
(* participant (1, 1) for data sources "A", "B" and "T"; "T" was created   *)
(* by create_data_source("T", [timestamp]) and has the reserved column     *)
(* alone. The tables of "A" and "B" exist at the start.                    *)
(***************************************************************************)
MaxOpened == 3

SchemaNameArgs == {"data", "other"}

TablesColumns == SchemaColumns \o << Column(TIMESTAMP, "timestamp", FALSE, <<>>) >>

TablesDataSources == SchemaDataSources \o <<"T">>

TablesDataSourceColumns == SchemaDataSourceColumns \o << DataSourceColumn(3, 6) >>

InitWrappers ==
    /\ column = TablesColumns
    /\ data_source = TablesDataSources
    /\ data_source_column = TablesDataSourceColumns
    /\ participant = {TheParticipant}
    /\ campaign_data_source = {<<1, 1>>, <<1, 2>>}
    /\ data = create_tables(NoTables,
                  {DataTable_table_name(1, 1, 1), AggDataTable_table_name(1, 1, 1),
                   DataTable_table_name(1, 1, 2), AggDataTable_table_name(1, 1, 2)})
    /\ hourly_stats = <<>>
    /\ system_tz = "utc"
    /\ core_campaign = FixtureCampaigns
    /\ supervisor = FixtureSupervisors
    /\ connections = DataConnection
    /\ durable = data
    /\ ret = NoCall
    /\ calls = NoCalls

\* a call that opens a connection is offered while fewer than MaxOpened were opened
CanOpen(schema_name) ==
    schema_name \in DOMAIN connections.cache \/ connections.opened < MaxOpened

\* a record that fits the data source
RecordOf(ds) ==
    IF ds = 1 THEN PyDict(LevelId :> PyInt(1) @@ ValueId :> PyFloat(35))
    ELSE PyDict(ValueId :> PyFloat(35))

Get == \E schema_name \in SchemaNameArgs : CanOpen(schema_name) /\ get(schema_name)

CloseAll == \E commit \in BOOLEAN : close_all(commit)

CreateTable ==
    \E ds \in DOMAIN data_source : CanOpen("data") /\ DataTable_create_table(TheParticipant, ds)

DropTable ==
    \E ds \in DOMAIN data_source : CanOpen("data") /\ DataTable_drop_table(TheParticipant, ds)

TableExists ==
    \E ds \in DOMAIN data_source : CanOpen("data") /\ DataTable_table_exists(TheParticipant, ds)

InsertBatched ==
    \E ds \in {1, 2}, commit \in BOOLEAN :
        /\ CanOpen("data")
        /\ DataTable_table_name(1, 1, ds) \in DOMAIN data
        /\ Len(data[DataTable_table_name(1, 1, ds)]) < MaxRows
        /\ insert(TheParticipant, ds, PyDatetime(0, "naive"), RecordOf(ds), commit)

Commit == \E ds \in {1, 2} : CanOpen("data") /\ DataTable_commit(TheParticipant, ds)

NextTables ==
    Get \/ CloseAll \/ CreateTable \/ DropTable \/ TableExists \/ InsertBatched \/ Commit

SpecTables == InitWrappers /\ [][NextTables]_vars

\* C18: the first Connections.get(schema) opens a connection and ensures the schema;
\* every later get(schema) before close_all returns that connection and opens none;
\* close_all closes every cached connection and empties the cache, committing first
\* exactly when commit is true; no connection held or returned by the pool is closed.
C18_ConnectionCache ==
    /\ [](cached(connections) \cap connections.closed = {})
    /\ [][ /\ (ret'.op = "Connections.get" /\ ret'.args[1] \notin DOMAIN connections.cache) =>
                  /\ connections'.opened = connections.opened + 1
                  /\ ret'.value = connections'.opened
                  /\ ret'.value \notin connections.closed
                  /\ connections'.cache[ret'.args[1]] = ret'.value
                  /\ ret'.args[1] \in connections'.schemas
           /\ (ret'.op = "Connections.get" /\ ret'.args[1] \in DOMAIN connections.cache) =>
                  /\ connections' = connections
                  /\ ret'.value = connections.cache[ret'.args[1]]
           /\ (ret'.op = "close_all") =>
                  /\ DOMAIN connections'.cache = {}
                  /\ connections'.closed = connections.closed \cup cached(connections)
                  /\ connections'.opened = connections.opened
                  /\ durable' = IF ret'.args[1] THEN data ELSE durable
         ]_vars

\* after a close_all, schema `data` was asked for twice: the second call returned the
\* connection the first had opened, which is none of the closed ones
C18_Witness ==
    /\ ret.op = "Connections.get"
    /\ ret.args = <<"data">>
    /\ connections.closed # {}
    /\ connections.opened = ret.value
    /\ ret.value \notin connections.closed
    /\ "other" \in connections.schemas

\* what the last lifecycle call on a table of the data sources in `sources` left
lifecycle_answers(sources) ==
    LET n == DataTable_table_name(ret.args[1][1], ret.args[1][2], ret.args[2]) IN
    (ret.op \in {"create_table", "drop_table", "table_exists"} /\ ret.args[2] \in sources) =>
        /\ ret.raised = ""
        /\ (ret.op = "create_table") => (n \in DOMAIN data)
        /\ (ret.op = "drop_table") => (n \notin DOMAIN data)
        /\ (ret.op = "table_exists") => (ret.value = (n \in DOMAIN data))

\* the effect of one step on the tables of the data sources in `sources`
lifecycle_step(sources) ==
    \A ds \in sources :
             LET n == DataTable_table_name(1, 1, ds) IN
             /\ (ret'.op = "create_table" /\ ret'.args[2] = ds /\ n \in DOMAIN data) =>
                    /\ n \in DOMAIN data'
                    /\ data'[n] = data[n]
             /\ (ret'.op = "drop_table" /\ ret'.args[2] = ds /\ n \notin DOMAIN data) =>
                    data' = data
             /\ ~(ret'.op \in {"create_table", "drop_table"} /\ ret'.args[2] = ds) =>
                    (n \in DOMAIN data' <=> n \in DOMAIN data)

\* C19: create_table on an existing table raises nothing and keeps the rows; drop_table
\* on a missing table raises nothing; table_exists() is true exactly when the most
\* recent of create_table and drop_table on that table was create_table.
C19_TableLifecycle ==
    /\ [](lifecycle_answers(DOMAIN TablesDataSources))
    /\ [][lifecycle_step(DOMAIN TablesDataSources)]_vars

\* C19 for the data sources that have a column besides `timestamp`
C19_TableLifecycleWithColumns ==
    /\ [](lifecycle_answers({1, 2}))
    /\ [][lifecycle_step({1, 2})]_vars

\* C20: a row inserted with commit=True is durable when insert returns; the rows a
\* caller inserted with commit=False into its table become durable by no call through
\* the wrapper of another table (create_table, drop_table, insert with commit=True).
C20_CommitBoundary ==
    [][ /\ (ret'.op = "insert" /\ ret'.raised = "" /\ ret'.args[5]) => durable' = data'
        /\ \A ds \in {1, 2} :
             LET n == DataTable_table_name(1, 1, ds) IN
             ( /\ n \in DOMAIN data /\ n \in DOMAIN durable
               /\ data[n] # durable[n]
               /\ ret'.op \in {"create_table", "drop_table", "insert", "table_exists"}
               /\ ret'.args[2] # ds )
             => durable'[n] = durable[n]
      ]_vars

\* C20, the first half: a row inserted with commit=True is durable when insert returns,
\* and an insert with commit=False leaves the durable rows as they were
C20_InsertCommits ==
    [][ /\ (ret'.op = "insert" /\ ret'.raised = "" /\ ret'.args[5]) => durable' = data'
        /\ (ret'.op = "insert" /\ ret'.raised = "" /\ ~ret'.args[5]) =>
               /\ durable' = durable
               /\ data' # durable'
      ]_vars

(***************************************************************************)
(* Dynamic tables: select_next_k and select_range.                         *)
(***************************************************************************)
\* the column names of the rows of the table of a data source
row_keys(ds) ==
    {"data_source_id", TIMESTAMP}
    \cup {column[non_reserved(column, get_data_source_columns(ds))[k]].name :
              k \in DOMAIN non_reserved(column, get_data_source_columns(ds))}

\* where data_source_id = %s and timestamp >= %s
select_next_k_where(row, ds, from_ts) ==
    /\ row.data_source_id = ds
    /\ row.timestamp >= strip_tz(from_ts)

\* the rows select_range matches, by position in the table
select_range_matches(rows, ds, from_ts, till_ts) ==
    {i \in DOMAIN rows : select_count_where(rows[i], ds, from_ts, till_ts)}

\* the rows select_next_k matches, by position in the table
select_next_k_matches(rows, ds, from_ts) ==
    {i \in DOMAIN rows : select_next_k_where(rows[i], ds, from_ts)}

Min(a, b) == IF a < b THEN a ELSE b

\* what fetchall() may hold for a query with no `order by`: the matching rows in any
\* order, cut to `limit` rows
fetchall(rows, matches, limit) ==
    {[k \in DOMAIN q |-> rows[q[k]]] :
        q \in {q \in SeqsUpTo(matches, Min(limit, Cardinality(matches))) :
                 /\ Len(q) = Min(limit, Cardinality(matches))
                 /\ \A i, j \in DOMAIN q : i # j => q[i] # q[j]}}

\* DataRecord(data_source, timestamp = row['ts'], value = row['val']) for every
\* fetched row: a row with no column of that name raises KeyError
to_data_records(ds, fetched, op, args) ==
    IF fetched = <<>> THEN Returned(op, args, PyList(<<>>))
    ELSE IF "ts" \notin row_keys(ds) \/ "val" \notin row_keys(ds)
    THEN Raised(op, args, "KeyError")
    ELSE Returned(op, args,
             PyList([k \in DOMAIN fetched |->
                        [data_source |-> fetched[k].data_source_id,
                         timestamp |-> fetched[k].ts, value |-> fetched[k].val]]))

\* DataTable(participant, data_source).select_next_k(from_ts, limit)
select_next_k(p, ds, from_ts, limit) ==
    LET args == <<p, ds, from_ts, limit>>
        op == "select_next_k"
        table_name == DataTable_table_name(p[1], p[2], ds)
    IN
    /\ UNCHANGED calls
    /\ UNCHANGED <<column, data_source, data_source_column, participant,
                   campaign_data_source, data, hourly_stats, system_tz,
                   core_campaign, supervisor, durable>>
    /\ connections' = Connections_get(connections, "data")
    /\ IF table_name \notin DOMAIN data
       THEN ret' = Raised(op, args, "UndefinedTable")
       ELSE \E fetched \in fetchall(data[table_name],
                                    select_next_k_matches(data[table_name], ds, from_ts), limit) :
                ret' = to_data_records(ds, fetched, op, args)

\* DataTable(participant, data_source).select_range(from_ts, till_ts)
select_range(p, ds, from_ts, till_ts) ==
    LET args == <<p, ds, from_ts, till_ts>>
        op == "select_range"
        table_name == DataTable_table_name(p[1], p[2], ds)
    IN
    /\ UNCHANGED calls
    /\ UNCHANGED <<column, data_source, data_source_column, participant,
                   campaign_data_source, data, hourly_stats, system_tz,
                   core_campaign, supervisor, durable>>
    /\ connections' = Connections_get(connections, "data")
    /\ IF table_name \notin DOMAIN data
       THEN ret' = Raised(op, args, "UndefinedTable")
       ELSE \E fetched \in fetchall(data[table_name],
                                    select_range_matches(data[table_name], ds, from_ts, till_ts),
                                    Len(data[table_name])) :
                ret' = to_data_records(ds, fetched, op, args)

(***************************************************************************)
(* SpecSelect: records go into the raw table of participant (1, 1) and     *)
(* data source "B" (value: float), and the table is read with              *)
(* select_next_k and select_range.                                         *)
(***************************************************************************)
WallArgs == {PyDatetime(wall, "naive") : wall \in 0 .. MaxWall}

LimitArgs == 0 .. MaxRows

InsertAt ==
    /\ Len(data[DataTable_table_name(1, 1, 2)]) < MaxRows
    /\ \E timestamp \in WallArgs : insert(TheParticipant, 2, timestamp, RecordOf(2), TRUE)

SelectNextK ==
    \E from_ts \in WallArgs, limit \in LimitArgs : select_next_k(TheParticipant, 2, from_ts, limit)

SelectRange ==
    \E from_ts \in WallArgs, till_ts \in WallArgs :
        select_range(TheParticipant, 2, from_ts, till_ts)

NextSelect == InsertAt \/ SelectNextK \/ SelectRange

SpecSelect == InitTables /\ [][NextSelect]_vars

\* the timestamps of the rows select_next_k matches
matching_timestamps(rows, ds, from_ts) ==
    {rows[i].timestamp : i \in select_next_k_matches(rows, ds, from_ts)}

\* C21: select_next_k(from_ts, k) returns at most k records, all with timestamp >=
\* from_ts, in ascending order of timestamp, and they are the k earliest such records of
\* the table; select_next_k and select_range leave the table unchanged.
C21_NextKEarliest ==
    [][ /\ (ret'.op \in {"select_next_k", "select_range"}) => (data' = data /\ durable' = durable)
        /\ (ret'.op = "select_next_k") =>
               LET rows == data[DataTable_table_name(1, 1, ret'.args[2])]
                   n == Cardinality(select_next_k_matches(rows, ret'.args[2], ret'.args[3]))
               IN
               /\ ret'.raised = ""
               /\ Len(ret'.value.q) = Min(ret'.args[4], n)
               /\ \A k \in DOMAIN ret'.value.q :
                      /\ ret'.value.q[k].timestamp >= strip_tz(ret'.args[3])
                      /\ \A j \in DOMAIN ret'.value.q :
                             j < k => ret'.value.q[j].timestamp <= ret'.value.q[k].timestamp
                      /\ Cardinality({i \in select_next_k_matches(rows, ret'.args[2], ret'.args[3]) :
                                         rows[i].timestamp < ret'.value.q[k].timestamp}) < k
      ]_vars

\* C21, the read-only half: select_next_k and select_range leave every table as it was
C21_ReadOnly ==
    [][ (ret'.op \in {"select_next_k", "select_range"}) => (data' = data /\ durable' = durable)
      ]_vars

(***************************************************************************)
(* Supervisors.                                                            *)
(***************************************************************************)
\* Supervisor.filter(campaign = campaign, user = user).exists()
is_supervisor(campaign, user) == <<campaign, user>> \in supervisor

\* the rows after old_supervisor.delete(): Model.delete() builds a DELETE query for the
\* table, and a query that is not executed changes no row
delete(rows, row) == rows

\* add_supervisor_to_campaign(supervisor, new_user); `sup` is a Supervisor row
add_supervisor_to_campaign(sup, new_user) ==
    LET args == <<sup, new_user>>
        op == "add_supervisor_to_campaign"
        campaign == sup[1]
    IN
    /\ UNCHANGED calls
    /\ UNCHANGED <<column, data_source, data_source_column, participant, data,
                   campaign_data_source, hourly_stats, system_tz, connections, durable,
                   core_campaign>>
    /\ IF is_supervisor(campaign, new_user)
       THEN /\ ret' = Returned(op, args, FALSE)
            /\ UNCHANGED supervisor
       ELSE /\ supervisor' = supervisor \cup {<<campaign, new_user>>}
            /\ ret' = Returned(op, args, TRUE)

\* remove_supervisor_from_campaign(old_supervisor)
remove_supervisor_from_campaign(old_supervisor) ==
    LET args == <<old_supervisor>>
        op == "remove_supervisor_from_campaign"
        campaign == old_supervisor[1]
    IN
    /\ UNCHANGED calls
    /\ UNCHANGED <<column, data_source, data_source_column, participant, data,
                   campaign_data_source, hourly_stats, system_tz, connections, durable,
                   core_campaign>>
    /\ supervisor' = IF old_supervisor[2] # core_campaign[campaign].owner
                     THEN delete(supervisor, old_supervisor)
                     ELSE supervisor
    /\ ret' = Returned(op, args, PyNone)

(***************************************************************************)
(* SpecSupervisor: campaigns are created, and supervisors are added to     *)
(* them and removed from them.                                             *)
(***************************************************************************)
CreateOwned ==
    /\ Len(core_campaign) < MaxCampaigns
    /\ \E owner \in Users, times \in CampaignTimeArgs, data_sources \in DataSourcesArgs :
           create_campaign(owner, PyStr("dummy"), times[1], times[2], data_sources)

AddSupervisor ==
    \E sup \in supervisor, new_user \in Users : add_supervisor_to_campaign(sup, new_user)

RemoveSupervisor ==
    \E old_supervisor \in supervisor : remove_supervisor_from_campaign(old_supervisor)

NextSupervisor == CreateOwned \/ AddSupervisor \/ RemoveSupervisor

SpecSupervisor == InitCampaign /\ [][NextSupervisor]_vars

\* C22: the owner of every campaign is one of its supervisors in every state reached
\* through create_campaign, add_supervisor_to_campaign and
\* remove_supervisor_from_campaign; right after create_campaign the owner is the only
\* supervisor of the new campaign.
C22_OwnerIsSupervisor ==
    /\ [](\A id \in DOMAIN core_campaign : is_supervisor(id, core_campaign[id].owner))
    /\ [][ (ret'.op = "create_campaign" /\ ret'.raised = "") =>
               {s \in supervisor' : s[1] = ret'.value} = {<<ret'.value, ret'.args[1]>>}
         ]_vars

\* a campaign owned by user 2 was created, its owner is its only supervisor, while the
\* first campaign has a second supervisor
C22_Witness ==
    /\ ret.op = "create_campaign"
    /\ ret.raised = ""
    /\ ret.args[1] = 2
    /\ {s \in supervisor : s[1] = ret.value} = {<<ret.value, 2>>}
    /\ <<1, 2>> \in supervisor

\* C28: remove_supervisor_from_campaign(old_supervisor) does nothing when the user is the
\* owner of the campaign; otherwise the user is no supervisor of the campaign after the
\* call, and every other Supervisor row is unchanged.
C28_RemoveSupervisor ==
    [][ (ret'.op = "remove_supervisor_from_campaign") =>
            LET old_supervisor == ret'.args[1] IN
            IF old_supervisor[2] = core_campaign[old_supervisor[1]].owner
            THEN supervisor' = supervisor
            ELSE /\ old_supervisor \notin supervisor'
                 /\ supervisor' \ {old_supervisor} = supervisor \ {old_supervisor}
      ]_vars

\* C28, the part on the other rows: remove_supervisor_from_campaign leaves the owner's
\* row and the rows of every other user and campaign as they were
C28_OtherRowsKept ==
    [][ (ret'.op = "remove_supervisor_from_campaign") =>
            LET old_supervisor == ret'.args[1] IN
            /\ supervisor' \ {old_supervisor} = supervisor \ {old_supervisor}
            /\ (old_supervisor[2] = core_campaign[old_supervisor[1]].owner)
                   => supervisor' = supervisor
      ]_vars

(***************************************************************************)
(* SpecShape: hourly statistics with every column, with some columns and   *)
(* with some histogram keys are stored for participant (1, 1) and data     *)
(* source "A", and read back at UTC hours.                                 *)
(***************************************************************************)
ShapeAmountArgs ==
    { PyDict(LevelId :> Histogram({"1", "2"}, 1) @@ ValueId :> Histogram({"amount"}, 1)),
      PyDict(ValueId :> Histogram({"amount"}, 3)),
      PyDict(LevelId :> Histogram({"1"}, 4)) }

UtcHourArgs == {PyDatetime(wall, "utc") : wall \in 0 .. MaxWall}

StoreShape ==
    \E hour_timestamp \in UtcHourArgs, amount \in ShapeAmountArgs :
        /\ create_hourly_stats(TheParticipant, 1, hour_timestamp, amount)
        /\ Len(hourly_stats') <= MaxStats

ReadShape ==
    \E hour_timestamp \in UtcHourArgs :
        get_hourly_amount_of_data(TheParticipant, 1, hour_timestamp)

NextShape == StoreShape \/ ReadShape

SpecShape == InitHourly /\ [][NextShape]_vars

\* the histogram keys of a column: its accept_values, or "amount" when it has none
histogram_keys(c) ==
    IF column[c].accept_values # <<>>
    THEN {column[c].accept_values[i] : i \in DOMAIN column[c].accept_values}
    ELSE {"amount"}

\* the columns of a data source besides `timestamp`
shape_columns(ds) ==
    {c \in {get_data_source_columns(ds)[k] : k \in DOMAIN get_data_source_columns(ds)} :
        column[c].name # TIMESTAMP}

\* C23: whatever is stored, the result of get_hourly_amount_of_data has exactly one entry
\* per non-timestamp column of the data source, and the histogram of each entry has a key
\* for every accept_values entry of the column, or the single key "amount".
C23_CompleteShape ==
    (ret.op = "get_hourly_amount_of_data" /\ ret.raised = "") =>
        /\ DOMAIN ret.value = shape_columns(ret.args[2])
        /\ \A c \in DOMAIN ret.value : DOMAIN ret.value[c] = histogram_keys(c)

\* C23 by column: the result has exactly one entry per non-timestamp column, and the
\* entry of a column the stored row lacks, or of any column when nothing is stored at or
\* before the hour, is the zero-filled histogram of the column
C23_ColumnsComplete ==
    (ret.op = "get_hourly_amount_of_data" /\ ret.raised = "") =>
        LET stats == stats_for(hourly_stats, ret.args[1], ret.args[2],
                               floor_to_hour(ret.args[3].wall))
        IN
        /\ DOMAIN ret.value = shape_columns(ret.args[2])
        /\ \A c \in DOMAIN ret.value :
               (stats = 0 \/ ToString(c) \notin DOMAIN hourly_stats[stats].amount)
                   => ret.value[c] = [k \in histogram_keys(c) |-> 0]

(***************************************************************************)
(* Connections.get, statement by statement, for callers that run           *)
(* concurrently. calls[c] holds the position of caller c and its locals.   *)
(***************************************************************************)
MaxCallers == 3

Callers == 1 .. MaxCallers

\* what a statement of Connections.get leaves alone
GetFrame ==
    UNCHANGED <<column, data_source, data_source_column, participant,
                campaign_data_source, data, hourly_stats, system_tz,
                core_campaign, supervisor, durable, ret>>

\* a caller enters Connections.get(schema_name)
get_call(c, schema_name) ==
    /\ calls[c].pc = "idle"
    /\ calls' = [calls EXCEPT ![c] = [@ EXCEPT !.pc = "check", !.schema_name = schema_name]]
    /\ UNCHANGED connections
    /\ GetFrame

\* if schema_name not in Connections.__connections
get_check(c) ==
    /\ calls[c].pc = "check"
    /\ calls' = [calls EXCEPT ![c].pc =
                    IF calls[c].schema_name \notin DOMAIN connections.cache
                    THEN "connect" ELSE "return"]
    /\ UNCHANGED connections
    /\ GetFrame

\* con = pg2.connect(...); create schema if not exists; con.commit()
get_connect(c) ==
    /\ calls[c].pc = "connect"
    /\ connections' = [connections EXCEPT
                          !.opened = @ + 1,
                          !.schemas = @ \cup {calls[c].schema_name}]
    /\ calls' = [calls EXCEPT ![c] = [@ EXCEPT !.pc = "store", !.con = connections.opened + 1]]
    /\ GetFrame

\* Connections.__connections[schema_name] = con
get_store(c) ==
    /\ calls[c].pc = "store"
    /\ connections' = [connections EXCEPT
                          !.cache = [n \in DOMAIN connections.cache \cup {calls[c].schema_name} |->
                                        IF n = calls[c].schema_name THEN calls[c].con
                                        ELSE connections.cache[n]]]
    /\ calls' = [calls EXCEPT ![c].pc = "return"]
    /\ GetFrame

\* return Connections.__connections[schema_name]
get_return(c) ==
    /\ calls[c].pc = "return"
    /\ calls' = [calls EXCEPT ![c] =
                    [@ EXCEPT !.pc = "done", !.value = connections.cache[calls[c].schema_name]]]
    /\ UNCHANGED connections
    /\ GetFrame

(***************************************************************************)
(* SpecRace: the callers of one process each call Connections.get once,    *)
(* in any interleaving of their statements.                                *)
(***************************************************************************)
InitRace ==
    /\ column = SchemaColumns
    /\ data_source = SchemaDataSources
    /\ data_source_column = SchemaDataSourceColumns
    /\ participant = {}
    /\ campaign_data_source = {}
    /\ data = NoTables
    /\ hourly_stats = <<>>
    /\ system_tz = "utc"
    /\ core_campaign = FixtureCampaigns
    /\ supervisor = FixtureSupervisors
    /\ connections = NoConnections
    /\ durable = data
    /\ ret = NoCall
    /\ calls = [c \in Callers |-> [pc |-> "idle", schema_name |-> "", con |-> 0, value |-> 0]]

GetCall == \E c \in Callers, schema_name \in SchemaNameArgs : get_call(c, schema_name)

GetCheck == \E c \in Callers : get_check(c)

GetConnect == \E c \in Callers : get_connect(c)

GetStore == \E c \in Callers : get_store(c)

GetReturn == \E c \in Callers : get_return(c)

NextRace == GetCall \/ GetCheck \/ GetConnect \/ GetStore \/ GetReturn

SpecRace == InitRace /\ [][NextRace]_vars

\* C24: under any interleaving of concurrent Connections.get(schema) calls, at most one
\* connection is ever opened for a schema name, and all callers of that name receive the
\* same connection.
C24_OneConnectionPerSchema ==
    \A c1, c2 \in Callers :
        calls[c1].schema_name = calls[c2].schema_name =>
            /\ (calls[c1].con # 0 /\ calls[c2].con # 0) => calls[c1].con = calls[c2].con
            /\ (calls[c1].pc = "done" /\ calls[c2].pc = "done") =>
                   calls[c1].value = calls[c2].value

(***************************************************************************)
(* create_hourly_stats, statement by statement, for callers that run       *)
(* concurrently on participant (1, 1), data source "A" and one hour.       *)
(***************************************************************************)
\* what a statement of create_hourly_stats leaves alone
StatsFrame ==
    UNCHANGED <<column, data_source, data_source_column, participant,
                campaign_data_source, data, system_tz, core_campaign, supervisor,
                connections, durable, ret>>

RaceHour == 0

RaceAmountArgs ==
    { PyDict(LevelId :> Histogram({"1", "2"}, 1) @@ ValueId :> Histogram({"amount"}, 1)),
      PyDict(LevelId :> Histogram({"1", "2"}, 2) @@ ValueId :> Histogram({"amount"}, 2)) }

\* a caller enters create_hourly_stats: the timestamp is floored and the keys of amount
\* are verified
stats_call(c, amount) ==
    /\ calls[c].pc = "idle"
    /\ invalid_column_ids(1, amount) = {}
    /\ calls' = [calls EXCEPT ![c] = [@ EXCEPT !.pc = "filter", !.amount = amount]]
    /\ UNCHANGED hourly_stats
    /\ StatsFrame

\* hourly_stats = HourlyStats.filter(participant, data_source, timestamp); if hourly_stats
stats_filter(c) ==
    LET found == stats_at(hourly_stats, TheParticipant, 1, RaceHour) IN
    /\ calls[c].pc = "filter"
    /\ calls' = [calls EXCEPT ![c] =
                    IF found # {}
                    THEN [@ EXCEPT !.pc = "save",
                                   !.row = CHOOSE i \in found : \A j \in found : i <= j]
                    ELSE [@ EXCEPT !.pc = "insert"]]
    /\ UNCHANGED hourly_stats
    /\ StatsFrame

\* hourly_stats = hourly_stats[0]; hourly_stats.amount = amount; hourly_stats.save()
stats_save(c) ==
    /\ calls[c].pc = "save"
    /\ hourly_stats' = [hourly_stats EXCEPT ![calls[c].row].amount = json_dumps(calls[c].amount)]
    /\ calls' = [calls EXCEPT ![c].pc = "done"]
    /\ StatsFrame

\* HourlyStats.insert(participant, data_source, timestamp, amount).execute()
stats_insert(c) ==
    /\ calls[c].pc = "insert"
    /\ hourly_stats' = Append(hourly_stats,
                              HourlyStats(TheParticipant, 1, RaceHour, json_dumps(calls[c].amount)))
    /\ calls' = [calls EXCEPT ![c].pc = "done"]
    /\ StatsFrame

(***************************************************************************)
(* SpecStatsRace: every caller calls create_hourly_stats once for the same *)
(* participant, data source and hour, in any interleaving.                 *)
(***************************************************************************)
InitStatsRace ==
    /\ column = SchemaColumns
    /\ data_source = SchemaDataSources
    /\ data_source_column = SchemaDataSourceColumns
    /\ participant = {TheParticipant}
    /\ campaign_data_source = {<<1, 1>>, <<1, 2>>}
    /\ data = create_tables(NoTables,
                  {DataTable_table_name(1, 1, 1), AggDataTable_table_name(1, 1, 1),
                   DataTable_table_name(1, 1, 2), AggDataTable_table_name(1, 1, 2)})
    /\ hourly_stats = <<>>
    /\ system_tz = "utc"
    /\ core_campaign = FixtureCampaigns
    /\ supervisor = FixtureSupervisors
    /\ connections = DataConnection
    /\ durable = data
    /\ ret = NoCall
    /\ calls = [c \in Callers |-> [pc |-> "idle", amount |-> PyNone, row |-> 0]]

StatsCall == \E c \in Callers, amount \in RaceAmountArgs : stats_call(c, amount)

StatsFilter == \E c \in Callers : stats_filter(c)

StatsSave == \E c \in Callers : stats_save(c)

StatsInsert == \E c \in Callers : stats_insert(c)

NextStatsRace == StatsCall \/ StatsFilter \/ StatsSave \/ StatsInsert

SpecStatsRace == InitStatsRace /\ [][NextStatsRace]_vars

\* C25: once the concurrent create_hourly_stats calls for one (participant, data source,
\* hour) have returned, the table holds exactly one row for that key, and its amount is
\* the amount of one of the callers in full.
C25_OneRowPerKey ==
    ( /\ \A c \in Callers : calls[c].pc \in {"idle", "done"}
      /\ \E c \in Callers : calls[c].pc = "done" )
    => /\ Cardinality(stats_at(hourly_stats, TheParticipant, 1, RaceHour)) = 1
       /\ \A i \in stats_at(hourly_stats, TheParticipant, 1, RaceHour) :
              \E c \in Callers : /\ calls[c].pc = "done"
                                 /\ hourly_stats[i].amount = json_dumps(calls[c].amount)

\* C25, the amounts: every stored row of the key holds the amount of one caller in full
C25_NoMergedAmount ==
    \A i \in stats_at(hourly_stats, TheParticipant, 1, RaceHour) :
        \E c \in Callers : /\ calls[c].pc # "idle"
                           /\ hourly_stats[i].amount = json_dumps(calls[c].amount)

(***************************************************************************)
(* add_campaign_participant and add_campaign_data_source, statement by     *)
(* statement. calls.p is the caller of add_campaign_participant, calls.d   *)
(* the caller of add_campaign_data_source; each statement is atomic and    *)
(* what it writes is seen at once by the other caller.                     *)
(***************************************************************************)
\* what a statement of the two services leaves alone
BindFrame ==
    UNCHANGED <<column, data_source, data_source_column, hourly_stats, system_tz,
                core_campaign, supervisor, ret>>

\* a create_table of one of the two services: it commits on the connection of `data`
bind_create_table(table_name) ==
    /\ data' = create_table(data, table_name)
    /\ durable' = data'
    /\ connections' = Connections_get(connections, "data")

\* a caller enters add_campaign_participant(campaign, add_user)
participant_call(campaign, add_user) ==
    /\ calls.p.pc = "idle"
    /\ calls' = [calls EXCEPT !.p = [@ EXCEPT !.pc = "check", !.campaign = campaign,
                                              !.user = add_user]]
    /\ UNCHANGED <<participant, campaign_data_source, data, durable, connections>>
    /\ BindFrame

\* if slc.is_participant(user, campaign): return False
participant_check ==
    /\ calls.p.pc = "check"
    /\ calls' = [calls EXCEPT !.p =
                    IF is_participant(calls.p.campaign, calls.p.user)
                    THEN [@ EXCEPT !.pc = "done", !.value = FALSE]
                    ELSE [@ EXCEPT !.pc = "create"]]
    /\ UNCHANGED <<participant, campaign_data_source, data, durable, connections>>
    /\ BindFrame

\* participant = mdl.Participant.create(campaign, user)
participant_create ==
    /\ calls.p.pc = "create"
    /\ participant' = participant \cup {<<calls.p.campaign, calls.p.user>>}
    /\ calls' = [calls EXCEPT !.p.pc = "list"]
    /\ UNCHANGED <<campaign_data_source, data, durable, connections>>
    /\ BindFrame

\* for data_source in slc.get_campaign_data_sources(campaign)
participant_list ==
    /\ calls.p.pc = "list"
    /\ calls' = [calls EXCEPT !.p = [@ EXCEPT !.pc = "loop",
                                              !.todo = get_campaign_data_sources(calls.p.campaign)]]
    /\ UNCHANGED <<participant, campaign_data_source, data, durable, connections>>
    /\ BindFrame

\* the next data source of the loop, or return True
participant_loop ==
    /\ calls.p.pc = "loop"
    /\ IF calls.p.todo = {}
       THEN calls' = [calls EXCEPT !.p = [@ EXCEPT !.pc = "done", !.value = TRUE]]
       ELSE \E ds \in calls.p.todo :
                calls' = [calls EXCEPT !.p = [@ EXCEPT !.pc = "raw", !.cur = ds,
                                                       !.todo = @ \ {ds}]]
    /\ UNCHANGED <<participant, campaign_data_source, data, durable, connections>>
    /\ BindFrame

\* wrappers.DataTable(participant, data_source).create_table()
participant_raw ==
    /\ calls.p.pc = "raw"
    /\ bind_create_table(DataTable_table_name(calls.p.campaign, calls.p.user, calls.p.cur))
    /\ calls' = [calls EXCEPT !.p.pc = "agg"]
    /\ UNCHANGED <<participant, campaign_data_source>>
    /\ BindFrame

\* wrappers.AggDataTable(participant, data_source).create_table()
participant_agg ==
    /\ calls.p.pc = "agg"
    /\ bind_create_table(AggDataTable_table_name(calls.p.campaign, calls.p.user, calls.p.cur))
    /\ calls' = [calls EXCEPT !.p.pc = "loop"]
    /\ UNCHANGED <<participant, campaign_data_source>>
    /\ BindFrame

\* a caller enters add_campaign_data_source(campaign, data_source)
data_source_call(campaign, ds) ==
    /\ calls.d.pc = "idle"
    /\ calls' = [calls EXCEPT !.d = [@ EXCEPT !.pc = "check", !.campaign = campaign,
                                              !.data_source = ds]]
    /\ UNCHANGED <<participant, campaign_data_source, data, durable, connections>>
    /\ BindFrame

\* if slc.is_campaign_data_source(campaign, data_source): return False
data_source_check ==
    /\ calls.d.pc = "check"
    /\ calls' = [calls EXCEPT !.d =
                    IF is_campaign_data_source(calls.d.campaign, calls.d.data_source)
                    THEN [@ EXCEPT !.pc = "done", !.value = FALSE]
                    ELSE [@ EXCEPT !.pc = "create"]]
    /\ UNCHANGED <<participant, campaign_data_source, data, durable, connections>>
    /\ BindFrame

\* mdl.CampaignDataSource.create(campaign, data_source)
data_source_create ==
    /\ calls.d.pc = "create"
    /\ campaign_data_source' =
           campaign_data_source \cup {<<calls.d.campaign, calls.d.data_source>>}
    /\ calls' = [calls EXCEPT !.d.pc = "list"]
    /\ UNCHANGED <<participant, data, durable, connections>>
    /\ BindFrame

\* a listing that finds no participant
data_source_list_none ==
    /\ calls.d.pc = "list"
    /\ calls' = [calls EXCEPT !.d = [@ EXCEPT !.pc = "loop", !.todo = {}]]
    /\ UNCHANGED <<participant, campaign_data_source, data, durable, connections>>
    /\ BindFrame

\* for participant in slc.get_campaign_participants(campaign)
data_source_list ==
    /\ calls.d.pc = "list"
    /\ calls' = [calls EXCEPT !.d = [@ EXCEPT !.pc = "loop",
                                              !.todo = get_campaign_participants(calls.d.campaign)]]
    /\ UNCHANGED <<participant, campaign_data_source, data, durable, connections>>
    /\ BindFrame

\* the next participant of the loop: wrappers.DataTable(participant,
\* data_source).create_table(); or return True
data_source_loop ==
    /\ calls.d.pc = "loop"
    /\ IF calls.d.todo = {}
       THEN /\ calls' = [calls EXCEPT !.d = [@ EXCEPT !.pc = "done", !.value = TRUE]]
            /\ UNCHANGED <<data, durable, connections>>
       ELSE \E p \in calls.d.todo :
                /\ bind_create_table(DataTable_table_name(p[1], p[2], calls.d.data_source))
                /\ calls' = [calls EXCEPT !.d.todo = @ \ {p}]
    /\ UNCHANGED <<participant, campaign_data_source>>
    /\ BindFrame

(***************************************************************************)
(* SpecBindRace: campaign 1 has participant (1, 1) and data source "A"     *)
(* bound; one add_campaign_participant and one add_campaign_data_source    *)
(* on campaign 1 run concurrently.                                         *)
(***************************************************************************)
InitBindRace ==
    /\ column = SchemaColumns
    /\ data_source = SchemaDataSources
    /\ data_source_column = SchemaDataSourceColumns
    /\ participant = {TheParticipant}
    /\ campaign_data_source = {<<1, 1>>}
    /\ data = create_tables(NoTables,
                  {DataTable_table_name(1, 1, 1), AggDataTable_table_name(1, 1, 1)})
    /\ hourly_stats = <<>>
    /\ system_tz = "utc"
    /\ core_campaign = FixtureCampaigns
    /\ supervisor = FixtureSupervisors
    /\ connections = DataConnection
    /\ durable = data
    /\ ret = NoCall
    /\ calls = [p |-> [pc |-> "idle", campaign |-> 0, user |-> 0, todo |-> {}, cur |-> 0,
                       value |-> PyNone],
                d |-> [pc |-> "idle", campaign |-> 0, data_source |-> 0, todo |-> {},
                       value |-> PyNone]]

ParticipantCall == \E add_user \in Users : participant_call(1, add_user)

DataSourceCall == \E ds \in DOMAIN data_source : data_source_call(1, ds)

NextBindRace ==
    \/ ParticipantCall \/ participant_check \/ participant_create \/ participant_list
    \/ participant_loop \/ participant_raw \/ participant_agg
    \/ DataSourceCall \/ data_source_check \/ data_source_create \/ data_source_list
    \/ data_source_loop

SpecBindRace == InitBindRace /\ [][NextBindRace]_vars

\* C26: in every state another caller can observe, the intermediate states of
\* add_campaign_participant and add_campaign_data_source included, a Participant row
\* (C, U) and a CampaignDataSource row (C, D) together imply that the raw table of
\* (C, U, D) exists.
C26_TableBeforeBound ==
    \A p \in participant, cds \in campaign_data_source :
        p[1] = cds[1] => DataTable_table_name(p[1], p[2], cds[2]) \in DOMAIN data

\* C26 between calls: when neither service is in the middle of a call, every bound pair
\* has its raw table
C26_TableWhenQuiescent ==
    (calls.p.pc \in {"idle", "done"} /\ calls.d.pc \in {"idle", "done"}) =>
        \A p \in participant, cds \in campaign_data_source :
            p[1] = cds[1] => DataTable_table_name(p[1], p[2], cds[2]) \in DOMAIN data

\* C29: for any interleaving of one add_campaign_participant(C, U) and one
\* add_campaign_data_source(C, D) on the same campaign, once both calls have returned
\* the raw table of (C, U, D) exists.
C29_RaceCreatesTable ==
    (calls.p.pc = "done" /\ calls.d.pc = "done") =>
        DataTable_table_name(calls.p.campaign, calls.p.user, calls.d.data_source)
            \in DOMAIN data

\* user 2 and data source "B" were added concurrently; add_campaign_participant listed
\* the data sources before "B" was bound and made no table for it, and
\* add_campaign_data_source made the table of (1, 2, "B")
C29_Witness ==
    /\ calls.p.pc = "done" /\ calls.p.value = TRUE /\ calls.p.user = 2
    /\ calls.d.pc = "done" /\ calls.d.value = TRUE /\ calls.d.data_source = 2
    /\ AggDataTable_table_name(1, 2, 2) \notin DOMAIN data
    /\ DataTable_table_name(1, 2, 2) \in DOMAIN data

(***************************************************************************)
(* create_data_records.                                                    *)
(***************************************************************************)
\* slc.find_data_source(data_source_id, name = None): 0 for None
find_data_source(data_source_id) ==
    IF data_source_id \in DOMAIN data_source THEN data_source_id ELSE 0

\* zip(timestamps, data_source_ids, values)
zip(timestamps, data_source_ids, values) ==
    [k \in 1 .. Min(Len(timestamps), Min(Len(data_source_ids), Len(values))) |->
        [timestamp |-> timestamps[k], data_source_id |-> data_source_ids[k],
         value |-> values[k]]]

\* the loop of create_data_records over the zipped records: every record is inserted,
\* and committed, before the next one is looked at; the tables and the exception the
\* loop ends with ("" when it runs to its end)
RECURSIVE create_data_records_loop(_, _, _)
create_data_records_loop(tbls, p, records) ==
    IF records = <<>> THEN [tbls |-> tbls, raised |-> ""]
    ELSE LET r == Head(records)
             ds == find_data_source(r.data_source_id)
             table_name == DataTable_table_name(p[1], p[2], ds)
             columns == get_data_source_columns(ds)
         IN  IF ds = 0 THEN create_data_records_loop(tbls, p, Tail(records))
             ELSE IF insert_verify(columns, r.timestamp, r.value) # ""
             THEN [tbls |-> tbls, raised |-> insert_verify(columns, r.timestamp, r.value)]
             ELSE IF table_name \notin DOMAIN tbls
             THEN [tbls |-> tbls, raised |-> "UndefinedTable"]
             ELSE create_data_records_loop(
                      [tbls EXCEPT ![table_name] =
                          Append(@, insert_row(ds, columns, r.timestamp, r.value))],
                      p, Tail(records))

create_data_records(p, data_source_ids, timestamps, values) ==
    LET args == <<p, data_source_ids, timestamps, values>>
        op == "create_data_records"
        out == create_data_records_loop(data, p, zip(timestamps, data_source_ids, values))
    IN
    /\ UNCHANGED calls
    /\ UNCHANGED <<column, data_source, data_source_column, participant,
                   campaign_data_source, hourly_stats, system_tz, core_campaign, supervisor>>
    /\ data' = out.tbls
    /\ durable' = out.tbls
    /\ connections' = Connections_get(connections, "data")
    /\ ret' = IF out.raised # "" THEN Raised(op, args, out.raised)
              ELSE Returned(op, args, PyNone)

(***************************************************************************)
(* SpecBatch: batches of records for data source "B" (value: float) and    *)
(* for a data source id that names no data source go to participant        *)
(* (1, 1); a record is valid, or lacks the value of the column.            *)
(***************************************************************************)
MaxBatch == 2

UnknownDataSourceId == 9

BatchRecordArgs ==
    {[timestamp |-> PyDatetime(wall, "naive"), data_source_id |-> 2, value |-> RecordOf(2)] :
        wall \in 0 .. MaxWall}
    \cup {[timestamp |-> PyDatetime(0, "naive"), data_source_id |-> 2, value |-> PyDict(<<>>)],
          [timestamp |-> PyDatetime(0, "naive"), data_source_id |-> UnknownDataSourceId,
           value |-> RecordOf(2)]}

BatchArgs == {q \in SeqsUpTo(BatchRecordArgs, MaxBatch) : q # <<>>}

CreateDataRecords ==
    \E batch \in BatchArgs :
        /\ Len(data[DataTable_table_name(1, 1, 2)]) < MaxRows
        /\ create_data_records(TheParticipant,
                               [k \in DOMAIN batch |-> batch[k].data_source_id],
                               [k \in DOMAIN batch |-> batch[k].timestamp],
                               [k \in DOMAIN batch |-> batch[k].value])

NextBatch == CreateDataRecords

SpecBatch == InitTables /\ [][NextBatch]_vars

\* C27: when a record of the batch fails validation, create_data_records raises before
\* any record of the batch is written: the rows of every table are as before the call.
\* Records whose data_source_id names no data source are skipped without error, and the
\* remaining records are written.
C27_BatchAtomic ==
    [][ (ret'.op = "create_data_records") =>
            /\ (ret'.raised # "") => data' = data
            /\ (\A k \in DOMAIN ret'.args[2] :
                    \/ find_data_source(ret'.args[2][k]) = 0
                    \/ insert_verify(get_data_source_columns(ret'.args[2][k]),
                                     ret'.args[3][k], ret'.args[4][k]) = "")
               => /\ ret'.raised = ""
                  /\ Len(data'[DataTable_table_name(1, 1, 2)])
                         = Len(data[DataTable_table_name(1, 1, 2)])
                           + Cardinality({k \in DOMAIN ret'.args[2] :
                                             find_data_source(ret'.args[2][k]) # 0})
      ]_vars

\* C27, the skipped records: a batch whose records are valid or name no data source
\* raises nothing, and writes the records that name a data source
C27_UnknownSkipped ==
    [][ ( /\ ret'.op = "create_data_records"
          /\ \A k \in DOMAIN ret'.args[2] :
                 \/ find_data_source(ret'.args[2][k]) = 0
                 \/ insert_verify(get_data_source_columns(ret'.args[2][k]),
                                  ret'.args[3][k], ret'.args[4][k]) = "" )
        => /\ ret'.raised = ""
           /\ Len(data'[DataTable_table_name(1, 1, 2)])
                  = Len(data[DataTable_table_name(1, 1, 2)])
                    + Cardinality({k \in DOMAIN ret'.args[2] :
                                      find_data_source(ret'.args[2][k]) # 0})
      ]_vars

(***************************************************************************)
(* The wrappers of the aggregated tables.                                  *)
(***************************************************************************)
\* AggDataTable(participant, data_source).create_table()
AggDataTable_create_table(p, ds) ==
    LET args == <<p, ds, "_aggregated">>
        op == "create_table"
        table_name == AggDataTable_table_name(p[1], p[2], ds)
    IN
    /\ UNCHANGED calls
    /\ connections' = Connections_get(connections, "data")
    /\ SharedFrame
    /\ IF columns_sql(ds) = <<>>
       THEN /\ ret' = Raised(op, args, "SyntaxError")
            /\ UNCHANGED <<data, durable>>
       ELSE /\ data' = create_table(data, table_name)
            /\ durable' = data'
            /\ ret' = Returned(op, args, PyNone)

\* AggDataTable(participant, data_source).drop_table()
AggDataTable_drop_table(p, ds) ==
    LET args == <<p, ds, "_aggregated">>
        op == "drop_table"
        table_name == AggDataTable_table_name(p[1], p[2], ds)
    IN
    /\ UNCHANGED calls
    /\ connections' = Connections_get(connections, "data")
    /\ SharedFrame
    /\ data' = drop_table(data, table_name)
    /\ durable' = data'
    /\ ret' = Returned(op, args, PyNone)

(***************************************************************************)
(* SpecIsolation: campaigns 1 and 11 have data source "B" bound; users 1   *)
(* and 11 take part in campaign 1 and user 1 in campaign 11. Their raw     *)
(* and aggregated tables are created, dropped and written to.              *)
(***************************************************************************)
FarId == 11

IsolationCampaigns == [id \in 1 .. FarId |-> Campaign(1, "dummy", Today, Today + Day)]

IsolationParticipants == {<<1, 1>>, <<1, FarId>>, <<FarId, 1>>}

InitIsolation ==
    /\ column = SchemaColumns
    /\ data_source = SchemaDataSources
    /\ data_source_column = SchemaDataSourceColumns
    /\ participant = IsolationParticipants
    /\ campaign_data_source = {<<1, 2>>, <<FarId, 2>>}
    /\ data = create_tables(NoTables,
                  {DataTable_table_name(p[1], p[2], 2) : p \in IsolationParticipants}
                  \cup {AggDataTable_table_name(p[1], p[2], 2) : p \in IsolationParticipants})
    /\ hourly_stats = <<>>
    /\ system_tz = "utc"
    /\ core_campaign = IsolationCampaigns
    /\ supervisor = {<<id, 1>> : id \in DOMAIN IsolationCampaigns}
    /\ connections = DataConnection
    /\ durable = data
    /\ ret = NoCall
    /\ calls = NoCalls

CreateRaw == \E p \in participant : DataTable_create_table(p, 2)

DropRaw == \E p \in participant : DataTable_drop_table(p, 2)

CreateAgg == \E p \in participant : AggDataTable_create_table(p, 2)

DropAgg == \E p \in participant : AggDataTable_drop_table(p, 2)

InsertRaw ==
    \E p \in participant :
        /\ DataTable_table_name(p[1], p[2], 2) \in DOMAIN data
        /\ Len(data[DataTable_table_name(p[1], p[2], 2)]) < MaxRows
        /\ insert(p, 2, PyDatetime(0, "naive"), RecordOf(2), TRUE)

NextIsolation == CreateRaw \/ DropRaw \/ CreateAgg \/ DropAgg \/ InsertRaw

SpecIsolation == InitIsolation /\ [][NextIsolation]_vars

\* the wrappers of the participants and data sources of the state: participant, data
\* source and kind ("" for DataTable, "_aggregated" for AggDataTable)
Wrappers == participant \X (DOMAIN data_source) \X {"", "_aggregated"}

\* the table name of a wrapper
table_name_of(w) ==
    IF w[3] = "" THEN DataTable_table_name(w[1][1], w[1][2], w[2])
    ELSE AggDataTable_table_name(w[1][1], w[1][2], w[2])

\* the wrapper the last call went through
wrapper_of(r) == <<r.args[1], r.args[2], IF Len(r.args) = 3 THEN r.args[3] ELSE "">>

\* C30: two wrappers share a table name only if they are bound to the same campaign,
\* user, data source and kind; so insert, create_table and drop_table through one
\* wrapper leave the existence and the rows of the tables of every other wrapper
\* unchanged.
C30_TableIsolation ==
    /\ [](\A w1, w2 \in Wrappers : table_name_of(w1) = table_name_of(w2) => w1 = w2)
    /\ [][ (ret'.op \in {"insert", "create_table", "drop_table"}) =>
               \A w \in Wrappers :
                   w # wrapper_of(ret') =>
                       /\ table_name_of(w) \in DOMAIN data' <=> table_name_of(w) \in DOMAIN data
                       /\ table_name_of(w) \in DOMAIN data =>
                              data'[table_name_of(w)] = data[table_name_of(w)]
         ]_vars

\* the raw table of (campaign 1, user 11) was filled while the raw table of
\* (campaign 11, user 1) stayed empty and the aggregated table of (campaign 1, user 11)
\* was dropped
C30_Witness ==
    /\ ret.op = "insert"
    /\ ret.raised = ""
    /\ ret.args[1] = <<1, FarId>>
    /\ Len(data[DataTable_table_name(1, FarId, 2)]) = MaxRows
    /\ DataTable_table_name(FarId, 1, 2) \in DOMAIN data
    /\ data[DataTable_table_name(FarId, 1, 2)] = <<>>
    /\ AggDataTable_table_name(1, FarId, 2) \notin DOMAIN data

====
